---- MODULE Spec2Model ----
(***************************************************************************)
(* Model of monadic::completion / monadic::completion_promise              *)
(* (include/monadic/completion.hpp) together with the pieces it is built   *)
(* on: exceptional<T>, spin_mutex and scope_exit_invoker.                  *)
(*                                                                         *)
(* Every thread owns a call stack of frames.  A frame is one activation   *)
(* of a member function; its pc says how far the body has run.  The spin   *)
(* mutex of a completion_data is taken by one step, the body that runs     *)
(* under it by further steps, and it is released by the last step.         *)
(***************************************************************************)
EXTENDS Integers, Sequences, FiniteSets, TLC

\* ---------------------------------------------------------------- bounds
MaxBlocks == 3      \* completion_data allocations (block 0 plus chained ones)
MaxOps    == 3      \* member-function calls the threads start in total
MaxGuards == 3      \* scope_exit_invoker objects constructed in the scope
MaxSpins  == 2      \* try_lock attempts of one try_lock_until before its deadline passes
MaxChainOps == 4    \* calls started while a chain is built, delivered and read
MaxSteps  == 3      \* member functions applied to one exceptional in a row

Threads == {"t1", "t2"}
Blocks  == 0 .. (MaxBlocks - 1)

\* ------------------------------------------------- completion_state enum
no_value     == "no_value"
has_value    == "has_value"
has_callback == "has_callback"
complete     == "complete"
disabled     == "disabled"
broken       == "broken"

completion_state == {no_value, has_value, has_callback, complete, disabled, broken}

\* ----------------------------------------------------------- exceptional
\* exceptional<T> is the pair (ex_, val_); a null ex_ is the string "null".
\* val_ of an instance built by failure() is never initialised and only ever
\* copied by the code; it is carried as the marker value -1.
Errors  == {"e1"}
Vals    == {1}

success(v) == [ex |-> "null", val |-> v]

failure(e) == [ex |-> e, val |-> -1]

is_success(x) == x.ex = "null"

is_failure(x) == x.ex # "null"

\* completion_data is created by make_shared<completion_data<T>>(), which
\* value-initialises it: ex_ is null and val_ is zero.
EmptyValue == [ex |-> "null", val |-> 0]

\* What is left in an exceptional after it was the source of a move
\* construction: val_ (an int) is copied, ex_ is either emptied or left as
\* it was, depending on the standard library's exception_ptr.
MovedFrom(x) == {x, [ex |-> "null", val |-> x.val]}

\* The functions handed to map: "dbl" doubles, "boom" throws.
\* The functions handed to recover: "five" returns 5, "boom" throws.
MapFuncs     == {"dbl", "boom"}
RecoverFuncs == {"five", "boom"}

\* The functions handed to flatmap return an exceptional: "dbl_ok" a success
\* with the doubled value, "fail" a failure; "boom" throws.
FlatFuncs == {"dbl_ok", "fail", "boom"}

Throws(f) == f = "boom"

Call(f, v) == IF f = "dbl" THEN 2 * v ELSE 5

FlatCall(g, v) == IF g = "dbl_ok" THEN success(2 * v) ELSE failure("g_err")

\* What running a member function of exceptional gives: the value it returns,
\* the exception that leaves it ("none", or "terminate" when an exception
\* meets noexcept) and the calls it made to the function it was given.
Ran(out, raised, cs) == [out |-> out, raised |-> raised, calls |-> cs]

FnCall(f, v, e) == [func |-> f, val |-> v, err |-> e]

\* the calls cs, made by the stage chained on block b
StageCalls(cs, b) ==
    [i \in 1 .. Len(cs) |-> [func |-> cs[i].func, val |-> cs[i].val,
                             err |-> cs[i].err, blk |-> b]]

\* a function declared noexcept: an exception that would leave it ends the program
Noexcept(r) == IF r.raised = "none" THEN r ELSE Ran(r.out, "terminate", r.calls)

\* a failure factory without the test for a null exception_ptr
exceptional_failure_nocheck(e) ==
    Ran(failure(e), "none", <<>>)

\* exceptional<T>::failure(ex): throws invalid_argument for a null ex
exceptional_failure(e) ==
    IF e = "null" THEN Ran(EmptyValue, "invalid_argument", <<>>)
    ELSE Ran(failure(e), "none", <<>>)

\* try_to::exec without the catch
try_to_exec_nocatch(f, v) ==
    IF Throws(f) THEN Ran(EmptyValue, "f_err", <<FnCall(f, v, "null")>>)
    ELSE Ran(success(Call(f, v)), "none", <<FnCall(f, v, "null")>>)

\* detail::try_to<T>::exec:
\* try { return success(action(args)); } catch (...) { return failure(current_exception()); }
try_to_exec(f, v) ==
    IF Throws(f)
    THEN Noexcept(Ran(exceptional_failure("f_err").out,
                      exceptional_failure("f_err").raised,
                      <<FnCall(f, v, "null")>>))
    ELSE Ran(success(Call(f, v)), "none", <<FnCall(f, v, "null")>>)

try_to(f, v) == try_to_exec(f, v).out

\* map that runs the action whatever this instance holds
map_run_always(x, f) ==
    Noexcept(try_to_exec(f, x.val))

\* map without the try of try_to and without noexcept
map_run_throwing(x, f) ==
    IF x.ex # "null" THEN exceptional_failure(x.ex)
    ELSE IF Throws(f) THEN Ran(EmptyValue, "f_err", <<FnCall(f, x.val, "null")>>)
    ELSE Ran(success(Call(f, x.val)), "none", <<FnCall(f, x.val, "null")>>)

\* exceptional<T>::map: if (ex_) return failure(ex_); else return try_to(action, val_)
map_run(x, f) ==
    Noexcept(IF x.ex # "null" THEN exceptional_failure(x.ex)
             ELSE try_to_exec(f, x.val))

exceptional_map(x, f) == map_run(x, f).out

\* recover whose catch lets the exception of the action go
recover_run_nocatch(x, f) ==
    IF is_success(x) THEN Ran(x, "none", <<>>)
    ELSE IF Throws(f) THEN Ran(EmptyValue, "f_err", <<FnCall(f, 0, x.ex)>>)
    ELSE Ran(success(Call(f, 0)), "none", <<FnCall(f, 0, x.ex)>>)

\* recover that runs the action whatever this instance holds
recover_run_always(x, f) ==
    IF Throws(f) THEN Ran(failure("f_err"), "none", <<FnCall(f, 0, x.ex)>>)
    ELSE Ran(success(Call(f, 0)), "none", <<FnCall(f, 0, x.ex)>>)

\* recover that hands a failure on without running the action
recover_run_skip(x, f) ==
    Ran(x, "none", <<>>)

\* exceptional<T>::recover:
\* try { if (is_success()) return *this; else return success(action(ex_)); }
\* catch (...) { return failure(current_exception()); }
recover_run(x, f) ==
    Noexcept(IF is_success(x) THEN Ran(x, "none", <<>>)
             ELSE IF Throws(f)
                  THEN Ran(exceptional_failure("f_err").out,
                           exceptional_failure("f_err").raised,
                           <<FnCall(f, 0, x.ex)>>)
                  ELSE Ran(success(Call(f, 0)), "none", <<FnCall(f, 0, x.ex)>>))

exceptional_recover(x, f) == recover_run(x, f).out

\* a get that hands out val_ without looking at ex_
get_run_unchecked(x) ==
    Ran(x, "none", <<>>)

\* exceptional<T>::get: rethrows ex_ of a failure, else gives val_
get_run(x) ==
    IF x.ex # "null" THEN Ran(x, x.ex, <<>>) ELSE Ran(x, "none", <<>>)

\* map(action) inside flatmap: an exceptional whose val_ is the exceptional
\* the action returned
flatmap_inner(x, g) ==
    Noexcept(IF x.ex # "null"
             THEN Ran([ex |-> x.ex, val |-> EmptyValue],
                      exceptional_failure(x.ex).raised, <<>>)
             ELSE IF Throws(g)
                  THEN Ran([ex |-> "f_err", val |-> EmptyValue],
                           exceptional_failure("f_err").raised,
                           <<FnCall(g, x.val, "null")>>)
                  ELSE Ran([ex |-> "null", val |-> FlatCall(g, x.val)], "none",
                           <<FnCall(g, x.val, "null")>>))

\* a flatmap that keeps the exceptional of the action wrapped
flatmap_run_nested(x, g) ==
    LET m == flatmap_inner(x, g)
    IN  Ran(success(m.out.val.val), m.raised, m.calls)

\* exceptional<T>::flatmap, noexcept: return map(action).get()
flatmap_run(x, g) ==
    LET m == flatmap_inner(x, g)
    IN  IF m.raised # "none" THEN m
        ELSE IF m.out.ex # "null" THEN Noexcept(Ran(EmptyValue, m.out.ex, m.calls))
        ELSE Ran(m.out.val, "none", m.calls)

\* a wrap_call handed the other member function
ExfuncRun_swapped(exfunc, x, f) ==
    IF exfunc = "map" THEN recover_run(x, f) ELSE map_run(x, f)

ExfuncRun(exfunc, x, f) ==
    IF exfunc = "map" THEN map_run(x, f) ELSE recover_run(x, f)

\* (std::move(value).*exfunc)(func)
ApplyExfunc(exfunc, x, f) == ExfuncRun(exfunc, x, f).out

\* ------------------------------------------------------------- callbacks
\* What a std::function<void (exceptional<T>&&)> can hold in this model:
\*   none  - empty
\*   user  - a continuation of the caller; func "k_ok" returns, "k_throw" throws
\*   get   - the lambda of completion::get of thread who
\*   wrap  - the lambda of wrap_call: it owns the promise of block promise
NoCb == [kind |-> "none", who |-> "-", promise |-> -1, func |-> "-", exfunc |-> "-"]

UserCb(k) == [kind |-> "user", who |-> "-", promise |-> -1, func |-> k, exfunc |-> "-"]

GetCb(t) == [kind |-> "get", who |-> t, promise |-> -1, func |-> "-", exfunc |-> "-"]

WrapCb(p, f, x) == [kind |-> "wrap", who |-> "-", promise |-> p, func |-> f, exfunc |-> x]

UserFuncs == {"k_ok", "k_throw"}

\*   reenter - a function that calls func on the block it is invoked for
ReenterCb(op) == [kind |-> "reenter", who |-> "-", promise |-> -1, func |-> op, exfunc |-> "-"]

ReenterOps == {"complete", "on_complete", "get", "disable", "map", "recover"}

\* ----------------------------------------------------------------- state
VARIABLES
    nblocks,        \* number of completion_data allocated so far
    protect_,       \* completion_data::protect_  (spin_mutex::locked)
    state_,         \* completion_data::state_
    value_,         \* completion_data::value_
    callback_,      \* completion_data::callback_
    promise_alive,  \* a completion_promise referring to the block exists
    stack,          \* per thread: the frames of the calls in progress
    exc,            \* per thread: the exception in flight / left by the last call
    ret,            \* per thread: what the last call returned
    fut,            \* per thread: the std::promise local to completion::get
    invoked,        \* per block: the outcomes a continuation was invoked with
    hist,           \* per block: the calls that took effect, in lock order
    nops,           \* calls the threads may still start
    calls,          \* the calls made to the functions given to map and recover
    outcome,        \* an exceptional on its own and what was applied to it
    scope           \* a block scope and the scope_exit_invoker objects local to it

vars == <<nblocks, protect_, state_, value_, callback_, promise_alive,
          stack, exc, ret, fut, invoked, hist, nops, calls, outcome, scope>>

blockVars == <<protect_, state_, value_, callback_>>

NoFut == [set |-> FALSE, v |-> EmptyValue]

\* a scope that was entered and has no local object yet
NoScope == [objs |-> <<>>, path |-> "in"]

Frame(op, b, pc, arg, cb) == [op |-> op, blk |-> b, pc |-> pc, arg |-> arg, cb |-> cb]

Top(t) == stack[t][Len(stack[t])]

Pop(t) == SubSeq(stack[t], 1, Len(stack[t]) - 1)

SetTop(t, f) == [stack EXCEPT ![t] = Append(Pop(t), f)]

Event(op, arg, br) == [op |-> op, arg |-> arg, br |-> br, func |-> "-"]

\* the event of a wrap_call: which member of exceptional (op) with which function
StageEvent(op, f, br) == [op |-> op, arg |-> EmptyValue, br |-> br, func |-> f]

\* an exceptional as the default constructor leaves it, nothing applied yet
NoOutcome == [x |-> EmptyValue, src |-> EmptyValue, made |-> "default", tried |-> "-",
              raised |-> "none", calls |-> <<>>, ops |-> <<>>, from |-> EmptyValue]

InitData ==
    /\ nblocks = 1
    /\ protect_ = [b \in Blocks |-> FALSE]
    /\ state_ = [b \in Blocks |-> no_value]
    /\ value_ = [b \in Blocks |-> EmptyValue]
    /\ callback_ = [b \in Blocks |-> NoCb]
    /\ promise_alive = [b \in Blocks |-> b = 0]
    /\ stack = [t \in Threads |-> <<>>]
    /\ exc = [t \in Threads |-> "none"]
    /\ ret = [t \in Threads |-> 0]
    /\ fut = [t \in Threads |-> NoFut]
    /\ invoked = [b \in Blocks |-> <<>>]
    /\ hist = [b \in Blocks |-> <<>>]
    /\ calls = <<>>
    /\ outcome = NoOutcome
    /\ scope = NoScope

Init == InitData /\ nops = MaxOps

\* a caller that builds a chain, delivers and reads the result
InitChain == InitData /\ nops = MaxChainOps

\* ------------------------------------------------------------ spin_mutex
\* a try_lock that takes the mutex whoever holds it
try_lock_always(locked) == [ok |-> TRUE, locked |-> TRUE]

\* a try_lock whose compare-and-swap stores nothing
try_lock_nostore(locked) == [ok |-> ~locked, locked |-> locked]

\* try_lock: compare-and-swap of locked from false to true.
try_lock(locked) == [ok |-> ~locked, locked |-> TRUE]

\* unlock: locked.store(false)
unlock_store == FALSE

\* ------------------------------------------- the branches of the bodies
\* complete that stores over a value already delivered
complete_dispatch_overwrite(s) ==
    IF s = no_value \/ s = has_value THEN "store"
    ELSE IF s = has_callback THEN "invoke"
    ELSE IF s = disabled THEN "nothing"
    ELSE "throw"

\* complete without the branch for disabled
complete_dispatch_noabsorb(s) ==
    IF s = no_value THEN "store"
    ELSE IF s = has_callback THEN "invoke"
    ELSE "throw"

\* complete that stores the value although a continuation waits for it
complete_dispatch_storecb(s) ==
    IF s = no_value \/ s = has_callback THEN "store"
    ELSE IF s = disabled THEN "nothing"
    ELSE "throw"

\* complete that skips the continuation waiting for the value
complete_dispatch_dropcb(s) ==
    IF s = no_value THEN "store"
    ELSE IF s = has_callback \/ s = disabled THEN "nothing"
    ELSE "throw"

\* completion_promise::complete
complete_dispatch(s) ==
    IF s = no_value THEN "store"
    ELSE IF s = has_callback THEN "invoke"
    ELSE IF s = disabled THEN "nothing"
    ELSE "throw"

\* on_complete that registers even though the value is already there
on_complete_dispatch_noimmediate(s) ==
    IF s = no_value \/ s = has_value THEN "register"
    ELSE "throw"

\* on_complete that replaces a continuation already registered
on_complete_dispatch_reregister(s) ==
    IF s = no_value \/ s = has_callback THEN "register"
    ELSE IF s = has_value THEN "invoke"
    ELSE "throw"

\* completion::on_complete
on_complete_dispatch(s) ==
    IF s = no_value THEN "register"
    ELSE IF s = has_value THEN "invoke"
    ELSE "throw"

\* completion::wrap_call (its tests of impl_->state read state_)
\* a wrap_call that registers over a continuation already stored
wrap_call_dispatch_reregister(s) ==
    IF s \in {no_value, has_callback} THEN "register"
    ELSE IF s = has_value THEN "now"
    ELSE "throw"

wrap_call_dispatch(s) ==
    IF s = no_value THEN "register"
    ELSE IF s = has_value THEN "now"
    ELSE "throw"

\* a scope-exit action of complete that leaves the block as it is
complete_completer_keep(b) ==
    [state_ |-> state_[b], callback_ |-> callback_[b]]

\* a scope-exit action of complete that leaves the continuation stored
complete_completer_keepcb(b) ==
    [state_ |-> complete, callback_ |-> callback_[b]]

\* the scope-exit action of complete: state_ = complete; callback_ = nullptr
complete_completer(b) ==
    [state_ |-> complete, callback_ |-> NoCb]

\* a scope-exit action of on_complete that leaves state_ as it is
on_complete_completer_keep(b) ==
    [state_ |-> state_[b], callback_ |-> callback_[b]]

\* the scope-exit action of on_complete: state_ = complete
on_complete_completer(b) ==
    [state_ |-> complete, callback_ |-> callback_[b]]

\* disable that forgets to reset callback_
disable_effect_keepcb(b) ==
    [state_ |-> disabled, callback_ |-> callback_[b]]

\* a disable that acts only on a block still waiting for its value
disable_effect_guarded(b) ==
    IF state_[b] \in {no_value, has_callback} THEN [state_ |-> disabled, callback_ |-> NoCb]
    ELSE [state_ |-> state_[b], callback_ |-> callback_[b]]

\* completion::disable: state_ = disabled; callback_ = nullptr
disable_effect(b) ==
    [state_ |-> disabled, callback_ |-> NoCb]

\* ~completion_promise is the implicit destructor: it drops the shared_ptr
\* and leaves the completion_data as it is.
promise_destructor(b) == state_[b]

\* Destroying a callback destroys the completion_promise a wrap lambda owns.
DropCallback(cb) ==
    IF cb.kind = "wrap" THEN [promise_alive EXCEPT ![cb.promise] = FALSE]
    ELSE promise_alive

\* A completion handle for block b is in the hands of the callers: block 0
\* from get_completion, a chained block once its wrap_call has returned.
Published(b) ==
    /\ b < nblocks
    /\ \A t \in Threads : \A i \in 1 .. Len(stack[t]) :
          ~(stack[t][i].op = "wrap_call" /\ stack[t][i].cb.promise = b)

PendingWraps ==
    Cardinality({t \in Threads : /\ stack[t] # <<>>
                                 /\ stack[t][1].op = "wrap_call"
                                 /\ stack[t][1].cb.promise = -1})

Idle(t) == stack[t] = <<>>

CanStart(t) == Idle(t) /\ nops > 0

Begin(t, frames) ==
    /\ stack' = [stack EXCEPT ![t] = frames]
    /\ exc' = [exc EXCEPT ![t] = "none"]
    /\ ret' = [ret EXCEPT ![t] = 0]
    /\ nops' = nops - 1

\* ------------------------------------------------------ calls that start
\* completion_promise::set_value(v): complete(exceptional<T>::success(v))
set_value(t, v) ==
    /\ CanStart(t)
    /\ promise_alive[0]
    /\ Begin(t, <<Frame("complete", 0, "lock", success(v), NoCb)>>)
    /\ UNCHANGED <<nblocks, blockVars, promise_alive, fut, invoked, hist, calls, outcome, scope>>

\* completion_promise::set_exception(e): failure(e) throws invalid_argument
\* for a null e, before complete is entered.
set_exception(t, e) ==
    /\ CanStart(t)
    /\ promise_alive[0]
    /\ IF exceptional_failure(e).raised # "none"
       THEN /\ stack' = stack
            /\ exc' = [exc EXCEPT ![t] = exceptional_failure(e).raised]
            /\ ret' = [ret EXCEPT ![t] = 0]
            /\ nops' = nops - 1
       ELSE Begin(t, <<Frame("complete", 0, "lock", exceptional_failure(e).out, NoCb)>>)
    /\ UNCHANGED <<nblocks, blockVars, promise_alive, fut, invoked, hist, calls, outcome, scope>>

\* completion::on_complete(func)
on_complete(t, b, k) ==
    /\ CanStart(t)
    /\ Published(b)
    /\ Begin(t, <<Frame("on_complete", b, "lock", EmptyValue, UserCb(k))>>)
    /\ UNCHANGED <<nblocks, blockVars, promise_alive, fut, invoked, hist, calls, outcome, scope>>

\* completion::get(): a local std::promise, on_complete with the lambda that
\* sets it, then the wait on its future.
get(t, b) ==
    /\ CanStart(t)
    /\ Published(b)
    /\ Begin(t, <<Frame("get", b, "wait", EmptyValue, NoCb),
                  Frame("on_complete", b, "lock", EmptyValue, GetCb(t))>>)
    /\ fut' = [fut EXCEPT ![t] = NoFut]
    /\ UNCHANGED <<nblocks, blockVars, promise_alive, invoked, hist, calls, outcome, scope>>

\* a disable that does not take the lock
disable_unlocked(t, b) ==
    /\ CanStart(t)
    /\ Published(b)
    /\ Begin(t, <<Frame("disable", b, "body", EmptyValue, NoCb)>>)
    /\ UNCHANGED <<nblocks, blockVars, promise_alive, fut, invoked, hist, calls, outcome, scope>>

\* completion::disable()
disable(t, b) ==
    /\ CanStart(t)
    /\ Published(b)
    /\ Begin(t, <<Frame("disable", b, "lock", EmptyValue, NoCb)>>)
    /\ UNCHANGED <<nblocks, blockVars, promise_alive, fut, invoked, hist, calls, outcome, scope>>

\* completion::map(func): wrap_call(func, &exceptional<T>::map)
map(t, b, f) ==
    /\ CanStart(t)
    /\ Published(b)
    /\ nblocks + PendingWraps < MaxBlocks
    /\ Begin(t, <<Frame("wrap_call", b, "lock", EmptyValue, WrapCb(-1, f, "map"))>>)
    /\ UNCHANGED <<nblocks, blockVars, promise_alive, fut, invoked, hist, calls, outcome, scope>>

\* completion::recover(func): wrap_call(func, &exceptional<T>::recover)
recover(t, b, f) ==
    /\ CanStart(t)
    /\ Published(b)
    /\ nblocks + PendingWraps < MaxBlocks
    /\ Begin(t, <<Frame("wrap_call", b, "lock", EmptyValue, WrapCb(-1, f, "recover"))>>)
    /\ UNCHANGED <<nblocks, blockVars, promise_alive, fut, invoked, hist, calls, outcome, scope>>

\* The caller lets go of the completion_promise of block 0.
destroy_promise ==
    /\ promise_alive[0]
    /\ \A t \in Threads : \A i \in 1 .. Len(stack[t]) :
          ~(stack[t][i].op = "complete" /\ stack[t][i].blk = 0)
    /\ promise_alive' = [promise_alive EXCEPT ![0] = FALSE]
    /\ state_' = [state_ EXCEPT ![0] = promise_destructor(0)]
    /\ UNCHANGED <<nblocks, protect_, value_, callback_, stack, exc, ret, fut,
                   invoked, hist, nops, calls, outcome, scope>>

\* ------------------------------------------------------ steps of a body
Running(t, op, pc) == stack[t] # <<>> /\ Top(t).op = op /\ Top(t).pc = pc

Goto(t, pc) == SetTop(t, [Top(t) EXCEPT !.pc = pc])

Log(b, op, arg, br) == [hist EXCEPT ![b] = Append(@, Event(op, arg, br))]

\* a lock that lets in the thread that already holds the mutex
lock_recursive(t) ==
    /\ stack[t] # <<>>
    /\ Top(t).pc = "lock"
    /\ \/ try_lock(protect_[Top(t).blk]).ok
       \/ \E i \in 1 .. Len(stack[t]) - 1 :
             /\ stack[t][i].blk = Top(t).blk
             /\ stack[t][i].pc \in {"body", "completer", "after", "unlock"}
    /\ protect_' = [protect_ EXCEPT ![Top(t).blk] = try_lock(@).locked]
    /\ stack' = Goto(t, "body")
    /\ UNCHANGED <<nblocks, state_, value_, callback_, promise_alive, exc, ret,
                   fut, invoked, hist, nops, calls, outcome, scope>>

\* unique_lock lock(impl_->protect_): spin_mutex::lock succeeds
lock(t) ==
    /\ stack[t] # <<>>
    /\ Top(t).pc = "lock"
    /\ try_lock(protect_[Top(t).blk]).ok
    /\ protect_' = [protect_ EXCEPT ![Top(t).blk] = try_lock(@).locked]
    /\ stack' = Goto(t, "body")
    /\ UNCHANGED <<nblocks, state_, value_, callback_, promise_alive, exc, ret,
                   fut, invoked, hist, nops, calls, outcome, scope>>

\* ~unique_lock: spin_mutex::unlock, and the call returns or keeps throwing
\* a lock that is released only when the call returns normally
unlock_unless_thrown(t) ==
    /\ stack[t] # <<>>
    /\ Top(t).pc = "unlock"
    /\ protect_' = [protect_ EXCEPT ![Top(t).blk] =
                      IF exc[t] = "none" THEN unlock_store ELSE @]
    /\ stack' = [stack EXCEPT ![t] = Pop(t)]
    /\ UNCHANGED <<nblocks, state_, value_, callback_, promise_alive, exc, ret,
                   fut, invoked, hist, nops, calls, outcome, scope>>

unlock(t) ==
    /\ stack[t] # <<>>
    /\ Top(t).pc = "unlock"
    /\ protect_' = [protect_ EXCEPT ![Top(t).blk] = unlock_store]
    /\ stack' = [stack EXCEPT ![t] = Pop(t)]
    /\ UNCHANGED <<nblocks, state_, value_, callback_, promise_alive, exc, ret,
                   fut, invoked, hist, nops, calls, outcome, scope>>

\* a complete that leaves the value for somebody else to pass on
complete_body_deferred(t) ==
    /\ Running(t, "complete", "body")
    /\ LET b  == Top(t).blk
           br == complete_dispatch(state_[b])
       IN  /\ hist' = Log(b, "complete", Top(t).arg, br)
           /\ CASE br = "store" ->
                    /\ value_' = [value_ EXCEPT ![b] = Top(t).arg]
                    /\ state_' = [state_ EXCEPT ![b] = has_value]
                    /\ stack' = Goto(t, "unlock")
                    /\ UNCHANGED exc
                [] br = "invoke" ->
                    /\ value_' = [value_ EXCEPT ![b] = Top(t).arg]
                    /\ stack' = Goto(t, "unlock")
                    /\ UNCHANGED <<state_, exc>>
                [] br = "nothing" ->
                    /\ stack' = Goto(t, "unlock")
                    /\ UNCHANGED <<value_, state_, exc>>
                [] OTHER ->
                    /\ exc' = [exc EXCEPT ![t] = "logic_error"]
                    /\ stack' = Goto(t, "unlock")
                    /\ UNCHANGED <<value_, state_>>
    /\ UNCHANGED <<nblocks, protect_, callback_, promise_alive, ret, fut,
                   invoked, nops, calls, outcome, scope>>

\* completion_promise::complete, under the lock
complete_body(t) ==
    /\ Running(t, "complete", "body")
    /\ LET b  == Top(t).blk
           br == complete_dispatch(state_[b])
       IN  /\ hist' = Log(b, "complete", Top(t).arg, br)
           /\ CASE br = "store" ->
                    /\ value_' = [value_ EXCEPT ![b] = Top(t).arg]
                    /\ state_' = [state_ EXCEPT ![b] = has_value]
                    /\ stack' = Goto(t, "unlock")
                    /\ UNCHANGED exc
                [] br = "invoke" ->
                    /\ stack' = [stack EXCEPT ![t] =
                          Append(Goto(t, "completer")[t],
                                 Frame("callback", b, "run", Top(t).arg, callback_[b]))]
                    /\ UNCHANGED <<value_, state_, exc>>
                [] br = "nothing" ->
                    /\ stack' = Goto(t, "unlock")
                    /\ UNCHANGED <<value_, state_, exc>>
                [] OTHER ->
                    /\ exc' = [exc EXCEPT ![t] = "logic_error"]
                    /\ stack' = Goto(t, "unlock")
                    /\ UNCHANGED <<value_, state_>>
    /\ UNCHANGED <<nblocks, protect_, callback_, promise_alive, ret, fut,
                   invoked, nops, calls, outcome, scope>>

\* an on_complete that stores the continuation before it finds the state wrong
on_complete_body_clobber(t) ==
    /\ Running(t, "on_complete", "body")
    /\ LET b  == Top(t).blk
           br == on_complete_dispatch(state_[b])
       IN  /\ hist' = Log(b, "on_complete", EmptyValue, br)
           /\ CASE br = "register" ->
                    /\ callback_' = [callback_ EXCEPT ![b] = Top(t).cb]
                    /\ state_' = [state_ EXCEPT ![b] = has_callback]
                    /\ stack' = Goto(t, "unlock")
                    /\ UNCHANGED <<value_, exc>>
                [] br = "invoke" ->
                    /\ \E left \in MovedFrom(value_[b]) :
                          value_' = [value_ EXCEPT ![b] = left]
                    /\ stack' = [stack EXCEPT ![t] =
                          Append(Goto(t, "completer")[t],
                                 Frame("callback", b, "run", value_[b], Top(t).cb))]
                    /\ UNCHANGED <<callback_, state_, exc>>
                [] OTHER ->
                    /\ callback_' = [callback_ EXCEPT ![b] = Top(t).cb]
                    /\ exc' = [exc EXCEPT ![t] = "logic_error"]
                    /\ stack' = Goto(t, "unlock")
                    /\ UNCHANGED <<value_, state_>>
    /\ UNCHANGED <<nblocks, protect_, promise_alive, ret, fut, invoked, nops, calls, outcome, scope>>

\* completion::on_complete, under the lock
on_complete_body(t) ==
    /\ Running(t, "on_complete", "body")
    /\ LET b  == Top(t).blk
           br == on_complete_dispatch(state_[b])
       IN  /\ hist' = Log(b, "on_complete", EmptyValue, br)
           /\ CASE br = "register" ->
                    /\ callback_' = [callback_ EXCEPT ![b] = Top(t).cb]
                    /\ state_' = [state_ EXCEPT ![b] = has_callback]
                    /\ stack' = Goto(t, "unlock")
                    /\ UNCHANGED <<value_, exc>>
                [] br = "invoke" ->
                    /\ \E left \in MovedFrom(value_[b]) :
                          value_' = [value_ EXCEPT ![b] = left]
                    /\ stack' = [stack EXCEPT ![t] =
                          Append(Goto(t, "completer")[t],
                                 Frame("callback", b, "run", value_[b], Top(t).cb))]
                    /\ UNCHANGED <<callback_, state_, exc>>
                [] OTHER ->
                    /\ exc' = [exc EXCEPT ![t] = "logic_error"]
                    /\ stack' = Goto(t, "unlock")
                    /\ UNCHANGED <<value_, callback_, state_>>
    /\ UNCHANGED <<nblocks, protect_, promise_alive, ret, fut, invoked, nops, calls, outcome, scope>>

\* a scope-exit action that is skipped when the continuation threw
completer_unless_thrown(t) ==
    /\ stack[t] # <<>>
    /\ Top(t).pc = "completer"
    /\ LET b   == Top(t).blk
           eff == IF exc[t] # "none" THEN [state_ |-> state_[b], callback_ |-> callback_[b]]
                  ELSE IF Top(t).op = "complete" THEN complete_completer(b)
                  ELSE on_complete_completer(b)
       IN  /\ state_' = [state_ EXCEPT ![b] = eff.state_]
           /\ callback_' = [callback_ EXCEPT ![b] = eff.callback_]
           /\ promise_alive' = IF eff.callback_ = NoCb THEN DropCallback(callback_[b])
                               ELSE promise_alive
    /\ stack' = Goto(t, "unlock")
    /\ UNCHANGED <<nblocks, protect_, value_, exc, ret, fut, invoked, hist, nops, calls, outcome, scope>>

\* The scope_exit_invoker of complete / on_complete runs its action, whether
\* the continuation returned or threw.
completer(t) ==
    /\ stack[t] # <<>>
    /\ Top(t).pc = "completer"
    /\ LET b   == Top(t).blk
           eff == IF Top(t).op = "complete" THEN complete_completer(b)
                  ELSE on_complete_completer(b)
       IN  /\ state_' = [state_ EXCEPT ![b] = eff.state_]
           /\ callback_' = [callback_ EXCEPT ![b] = eff.callback_]
           /\ promise_alive' = IF eff.callback_ = NoCb THEN DropCallback(callback_[b])
                               ELSE promise_alive
    /\ stack' = Goto(t, "unlock")
    /\ UNCHANGED <<nblocks, protect_, value_, exc, ret, fut, invoked, hist, nops, calls, outcome, scope>>

\* completion::disable, under the lock
disable_body(t) ==
    /\ Running(t, "disable", "body")
    /\ LET b == Top(t).blk
       IN  /\ state_' = [state_ EXCEPT ![b] = disable_effect(b).state_]
           /\ callback_' = [callback_ EXCEPT ![b] = disable_effect(b).callback_]
           /\ promise_alive' = IF disable_effect(b).callback_ = NoCb
                               THEN DropCallback(callback_[b]) ELSE promise_alive
           /\ hist' = Log(b, "disable", EmptyValue, "-")
    /\ stack' = Goto(t, "unlock")
    /\ UNCHANGED <<nblocks, protect_, value_, exc, ret, fut, invoked, nops, calls, outcome, scope>>

\* completion::wrap_call, under the lock
wrap_call_body(t) ==
    /\ Running(t, "wrap_call", "body")
    /\ LET b   == Top(t).blk
           br  == wrap_call_dispatch(state_[b])
           new == nblocks
           cb  == WrapCb(new, Top(t).cb.func, Top(t).cb.exfunc)
           run == ExfuncRun(cb.exfunc, value_[b], cb.func)
       IN  /\ hist' = [hist EXCEPT ![b] = Append(@, StageEvent(cb.exfunc, cb.func, br))]
           /\ CASE br = "register" ->
                    /\ nblocks' = nblocks + 1
                    /\ promise_alive' = [promise_alive EXCEPT ![new] = TRUE]
                    /\ callback_' = [callback_ EXCEPT ![b] = cb]
                    /\ state_' = [state_ EXCEPT ![b] = has_callback]
                    /\ ret' = [ret EXCEPT ![t] = new]
                    /\ stack' = SetTop(t, [Top(t) EXCEPT !.pc = "unlock", !.cb = cb])
                    /\ UNCHANGED <<exc, calls>>
                [] br = "now" ->
                    /\ nblocks' = nblocks + 1
                    /\ calls' = calls \o StageCalls(run.calls, b)
                    /\ IF run.raised = "none"
                       THEN /\ promise_alive' = [promise_alive EXCEPT ![new] = TRUE]
                            /\ stack' = [stack EXCEPT ![t] =
                                  Append(SetTop(t, [Top(t) EXCEPT !.pc = "after", !.cb = cb])[t],
                                         Frame("complete", new, "lock", run.out, NoCb))]
                            /\ UNCHANGED exc
                       ELSE /\ exc' = [exc EXCEPT ![t] = run.raised]
                            /\ stack' = SetTop(t, [Top(t) EXCEPT !.pc = "unlock", !.cb = cb])
                            /\ UNCHANGED promise_alive
                    /\ UNCHANGED <<callback_, state_, ret>>
                [] OTHER ->
                    /\ exc' = [exc EXCEPT ![t] = "logic_error"]
                    /\ stack' = Goto(t, "unlock")
                    /\ UNCHANGED <<nblocks, promise_alive, callback_, state_, ret, calls>>
    /\ UNCHANGED <<protect_, value_, fut, invoked, nops, outcome, scope>>

\* a wrap_call that leaves the source block in has_value
wrap_call_after_keep(t) ==
    /\ Running(t, "wrap_call", "after")
    /\ ret' = [ret EXCEPT ![t] = Top(t).cb.promise]
    /\ promise_alive' = [promise_alive EXCEPT ![Top(t).cb.promise] = FALSE]
    /\ stack' = Goto(t, "unlock")
    /\ UNCHANGED <<nblocks, protect_, state_, value_, callback_, exc, fut, invoked, hist,
                   nops, calls, outcome, scope>>

\* wrap_call with a value present, after result_promise.complete returned:
\* state = complete; return result_promise.get_completion()
wrap_call_after(t) ==
    /\ Running(t, "wrap_call", "after")
    /\ LET b == Top(t).blk
       IN  /\ state_' = [state_ EXCEPT ![b] = complete]
           /\ ret' = [ret EXCEPT ![t] = Top(t).cb.promise]
           /\ promise_alive' = [promise_alive EXCEPT ![Top(t).cb.promise] = FALSE]
    /\ stack' = Goto(t, "unlock")
    /\ UNCHANGED <<nblocks, protect_, value_, callback_, exc, fut, invoked, hist, nops, calls, outcome, scope>>

\* A continuation given to on_complete runs.
run_user_callback(t) ==
    /\ Running(t, "callback", "run")
    /\ Top(t).cb.kind = "user"
    /\ invoked' = [invoked EXCEPT ![Top(t).blk] = Append(@, Top(t).arg)]
    /\ exc' = [exc EXCEPT ![t] = IF Top(t).cb.func = "k_throw" THEN "k_err" ELSE @]
    /\ stack' = [stack EXCEPT ![t] = Pop(t)]
    /\ UNCHANGED <<nblocks, blockVars, promise_alive, ret, fut, hist, nops, calls, outcome, scope>>

\* The lambda of get runs: promise.set_value(std::move(src))
run_get_callback(t) ==
    /\ Running(t, "callback", "run")
    /\ Top(t).cb.kind = "get"
    /\ invoked' = [invoked EXCEPT ![Top(t).blk] = Append(@, Top(t).arg)]
    /\ fut' = [fut EXCEPT ![Top(t).cb.who] = [set |-> TRUE, v |-> Top(t).arg]]
    /\ stack' = [stack EXCEPT ![t] = Pop(t)]
    /\ UNCHANGED <<nblocks, blockVars, promise_alive, exc, ret, hist, nops, calls, outcome, scope>>

\* The lambda of wrap_call runs:
\* result_promise.complete((std::move(result).*exfunc)(std::move(func)))
run_wrap_callback(t) ==
    /\ Running(t, "callback", "run")
    /\ Top(t).cb.kind = "wrap"
    /\ invoked' = [invoked EXCEPT ![Top(t).blk] = Append(@, Top(t).arg)]
    /\ LET run == ExfuncRun(Top(t).cb.exfunc, Top(t).arg, Top(t).cb.func)
       IN  /\ calls' = calls \o StageCalls(run.calls, Top(t).blk)
           /\ IF run.raised = "none"
              THEN /\ stack' = SetTop(t, Frame("complete", Top(t).cb.promise, "lock",
                                               run.out, NoCb))
                   /\ UNCHANGED exc
              ELSE /\ exc' = [exc EXCEPT ![t] = run.raised]
                   /\ stack' = [stack EXCEPT ![t] = Pop(t)]
    /\ UNCHANGED <<nblocks, blockVars, promise_alive, ret, fut, hist, nops, outcome, scope>>

\* get: on_complete threw, the exception leaves get
\* a get whose std::promise breaks when its continuation is dropped
get_throw_broken(t) ==
    /\ Running(t, "get", "wait")
    /\ exc[t] # "none" \/ (~fut[t].set /\ callback_[Top(t).blk] = NoCb)
    /\ exc' = [exc EXCEPT ![t] = IF @ = "none" THEN "broken_promise" ELSE @]
    /\ stack' = [stack EXCEPT ![t] = Pop(t)]
    /\ UNCHANGED <<nblocks, blockVars, promise_alive, ret, fut, invoked, hist, nops, calls, outcome, scope>>

get_throw(t) ==
    /\ Running(t, "get", "wait")
    /\ exc[t] # "none"
    /\ stack' = [stack EXCEPT ![t] = Pop(t)]
    /\ UNCHANGED <<nblocks, blockVars, promise_alive, exc, ret, fut, invoked, hist, nops, calls, outcome, scope>>

\* get: promise.get_future().get().get() once the std::promise is set
get_return(t) ==
    /\ Running(t, "get", "wait")
    /\ exc[t] = "none"
    /\ fut[t].set
    /\ LET run == get_run(fut[t].v)
       IN  IF run.raised # "none"
           THEN exc' = [exc EXCEPT ![t] = run.raised] /\ ret' = ret
           ELSE ret' = [ret EXCEPT ![t] = run.out.val] /\ exc' = exc
    /\ fut' = [fut EXCEPT ![t] = NoFut]
    /\ stack' = [stack EXCEPT ![t] = Pop(t)]
    /\ UNCHANGED <<nblocks, blockVars, promise_alive, invoked, hist, nops, calls, outcome, scope>>

Next ==
    \/ \E t \in Threads : \E v \in Vals : set_value(t, v)
    \/ \E t \in Threads : \E e \in Errors \cup {"null"} : set_exception(t, e)
    \/ \E t \in Threads : \E b \in Blocks : \E k \in UserFuncs : on_complete(t, b, k)
    \/ \E t \in Threads : \E b \in Blocks : get(t, b)
    \/ \E t \in Threads : \E b \in Blocks : disable(t, b)
    \/ \E t \in Threads : \E b \in Blocks : \E f \in MapFuncs : map(t, b, f)
    \/ \E t \in Threads : \E b \in Blocks : \E f \in RecoverFuncs : recover(t, b, f)
    \/ destroy_promise
    \/ \E t \in Threads : lock(t)
    \/ \E t \in Threads : unlock(t)
    \/ \E t \in Threads : complete_body(t)
    \/ \E t \in Threads : on_complete_body(t)
    \/ \E t \in Threads : completer(t)
    \/ \E t \in Threads : disable_body(t)
    \/ \E t \in Threads : wrap_call_body(t)
    \/ \E t \in Threads : wrap_call_after(t)
    \/ \E t \in Threads : run_user_callback(t)
    \/ \E t \in Threads : run_get_callback(t)
    \/ \E t \in Threads : run_wrap_callback(t)
    \/ \E t \in Threads : get_throw(t)
    \/ \E t \in Threads : get_return(t)

Spec == Init /\ [][Next]_vars

\* ------------------------------------------------------------ the chain
\* The use made of a completion in TEST(completion_map): the consumer thread
\* keeps the newest completion and chains map / recover onto it or reads it
\* with get, the producer thread delivers to the promise.
Consumer == "t1"

Producer == "t2"

Frontier == nblocks - 1

NextChain ==
    \/ \E v \in Vals : set_value(Producer, v)
    \/ \E e \in Errors : set_exception(Producer, e)
    \/ \E f \in MapFuncs : map(Consumer, Frontier, f)
    \/ \E f \in RecoverFuncs : recover(Consumer, Frontier, f)
    \/ get(Consumer, Frontier)
    \/ \E t \in Threads : lock(t)
    \/ \E t \in Threads : unlock(t)
    \/ \E t \in Threads : complete_body(t)
    \/ \E t \in Threads : on_complete_body(t)
    \/ \E t \in Threads : completer(t)
    \/ \E t \in Threads : wrap_call_body(t)
    \/ \E t \in Threads : wrap_call_after(t)
    \/ \E t \in Threads : run_get_callback(t)
    \/ \E t \in Threads : run_wrap_callback(t)
    \/ \E t \in Threads : get_throw(t)
    \/ \E t \in Threads : get_return(t)

SpecChain == InitChain /\ [][NextChain]_vars

\* ------------------------------------------------- a spin_mutex alone
\* Threads use the spin_mutex of block 0 directly: try_lock, or lock, and
\* unlock by the thread that got it.
SpinEvent(op, t, r) == [op |-> op, arg |-> EmptyValue, br |-> r, func |-> t]

\* Thread t got the mutex and has not unlocked it.
Holder(t) ==
    /\ stack[t] # <<>>
    /\ Top(t).op = "spin"
    /\ Top(t).pc \in {"body", "unlock"}

\* spin_mutex::try_lock()
m_try_lock(t) ==
    /\ CanStart(t)
    /\ LET r == try_lock(protect_[0])
       IN  /\ protect_' = [protect_ EXCEPT ![0] = r.locked]
           /\ ret' = [ret EXCEPT ![t] = IF r.ok THEN 1 ELSE 0]
           /\ stack' = [stack EXCEPT ![t] =
                 IF r.ok THEN <<Frame("spin", 0, "body", EmptyValue, NoCb)>> ELSE <<>>]
           /\ hist' = [hist EXCEPT ![0] =
                 Append(@, SpinEvent("try_lock", t, IF r.ok THEN "true" ELSE "false"))]
    /\ exc' = [exc EXCEPT ![t] = "none"]
    /\ nops' = nops - 1
    /\ UNCHANGED <<nblocks, state_, value_, callback_, promise_alive, fut, invoked,
                   calls, outcome, scope>>

\* spin_mutex::lock(): the call starts and spins in lock(t)
m_lock(t) ==
    /\ CanStart(t)
    /\ Begin(t, <<Frame("spin", 0, "lock", EmptyValue, NoCb)>>)
    /\ UNCHANGED <<nblocks, blockVars, promise_alive, fut, invoked, hist, calls, outcome, scope>>

\* the thread that holds the mutex comes to its unlock()
m_release(t) ==
    /\ Running(t, "spin", "body")
    /\ stack' = Goto(t, "unlock")
    /\ hist' = [hist EXCEPT ![0] = Append(@, SpinEvent("unlock", t, "-"))]
    /\ UNCHANGED <<nblocks, blockVars, promise_alive, exc, ret, fut, invoked, nops,
                   calls, outcome, scope>>

NextSpin ==
    \/ \E t \in Threads : m_try_lock(t)
    \/ \E t \in Threads : m_lock(t)
    \/ \E t \in Threads : m_release(t)
    \/ \E t \in Threads : lock(t)
    \/ \E t \in Threads : unlock(t)

SpecSpin == Init /\ [][NextSpin]_vars

\* --------------------------------------------- spin_mutex::try_lock_until
\* The header holds two definitions of the class. In the first one
\* try_lock_until is a do-while loop (try_lock, then the clock), in the other
\* a while loop (the clock, then try_lock). The loops differ only in where
\* they are entered; def says which of the two definitions is compiled, and
\* deadline how expiry_time lies when the call starts.

\* the events of thread t since its latest try_lock_until began
CallStart(t) ==
    LET starts == {i \in 1 .. Len(hist[0]) :
                     hist[0][i].op = "try_lock_until" /\ hist[0][i].func = t}
    IN  IF starts = {} THEN 0 ELSE CHOOSE i \in starts : \A j \in starts : j <= i

Attempts(t) ==
    Cardinality({i \in CallStart(t) + 1 .. Len(hist[0]) :
                   hist[0][i].op = "try_lock" /\ hist[0][i].func = t})

\* try_lock_until(expiry_time) is called
m_try_lock_until(t, def, deadline) ==
    /\ CanStart(t)
    /\ Begin(t, <<Frame("try_lock_until", 0, IF def = 1 THEN "try" ELSE "clock",
                          deadline, NoCb)>>)
    /\ hist' = [hist EXCEPT ![0] = Append(@, SpinEvent("try_lock_until", t, deadline))]
    /\ UNCHANGED <<nblocks, blockVars, promise_alive, fut, invoked, calls, outcome, scope>>

\* if (try_lock()) return true;
until_try(t) ==
    /\ Running(t, "try_lock_until", "try")
    /\ LET r == try_lock(protect_[0])
       IN  /\ protect_' = [protect_ EXCEPT ![0] = r.locked]
           /\ ret' = [ret EXCEPT ![t] = IF r.ok THEN 1 ELSE 0]
           /\ stack' = IF r.ok
                 THEN [stack EXCEPT ![t] = <<Frame("spin", 0, "body", EmptyValue, NoCb)>>]
                 ELSE Goto(t, "clock")
           /\ hist' = [hist EXCEPT ![0] =
                 Append(@, SpinEvent("try_lock", t, IF r.ok THEN "true" ELSE "false"))]
    /\ UNCHANGED <<nblocks, state_, value_, callback_, promise_alive, exc, fut, invoked,
                   nops, calls, outcome, scope>>

\* TClock::now() < expiry_time: never for a deadline in the past, and for a
\* later one until the clock has passed it; return false; when it fails
until_clock(t, before) ==
    /\ Running(t, "try_lock_until", "clock")
    /\ Top(t).arg = "past" => ~before
    /\ before => Attempts(t) < MaxSpins
    /\ IF before
          THEN /\ stack' = Goto(t, "try")
               /\ UNCHANGED <<ret, hist>>
          ELSE /\ stack' = [stack EXCEPT ![t] = Pop(t)]
               /\ ret' = [ret EXCEPT ![t] = 0]
               /\ hist' = [hist EXCEPT ![0] = Append(@, SpinEvent("return", t, "false"))]
    /\ UNCHANGED <<nblocks, blockVars, promise_alive, exc, fut, invoked, nops, calls,
                   outcome, scope>>

NextUntil ==
    \/ NextSpin
    \/ \E t \in Threads, def \in {1, 2}, deadline \in {"past", "future"} :
          m_try_lock_until(t, def, deadline)
    \/ \E t \in Threads : until_try(t)
    \/ \E t \in Threads, before \in BOOLEAN : until_clock(t, before)

SpecUntil == Init /\ [][NextUntil]_vars

\* ------------------------------------------------- scope_exit_invoker
\* One block scope and the scope_exit_invoker objects local to it. _func is
\* the identity of the function held (0 once it was moved from); made, from,
\* origin, released, moved and ran record where the object came from and what
\* was done with it. origin is what a move took over from its source: a
\* function still to be run ("armed"), one given up by release()
\* ("released"), or what an earlier move had left ("moved_from").
Invoker(func, responsible, made, from, origin) ==
    [_func |-> func, _responsible |-> responsible, alive |-> TRUE,
     made |-> made, from |-> from, origin |-> origin,
     released |-> FALSE, moved |-> FALSE, ran |-> 0]


\* scope_exit_invoker(Function&& func)
invoker_construct(func) == Invoker(func, TRUE, "ctor", 0, "armed")

\* a move constructor that leaves the source responsible
\* (a _func that was moved from is written 0)
invoker_move_keep(src, i) ==
    [dst |-> Invoker(src._func, src._responsible, "move", i,
                     IF src.moved THEN "moved_from"
                     ELSE IF src.released THEN "released"
                     ELSE src.origin),
     src |-> [src EXCEPT !._func = 0, !.moved = TRUE]]

\* scope_exit_invoker(scope_exit_invoker&& src), src being object i
invoker_move(src, i) ==
    [dst |-> Invoker(src._func, src._responsible, "move", i,
                     IF src.moved THEN "moved_from"
                     ELSE IF src.released THEN "released"
                     ELSE src.origin),
     src |-> [src EXCEPT !._func = 0, !._responsible = FALSE,
                         !.moved = TRUE]]

\* release()
invoker_release(o) == [o EXCEPT !._responsible = FALSE, !.released = TRUE]

\* a destructor that invokes _func without asking _responsible
invoker_destroy_always(o) == [o EXCEPT !.alive = FALSE, !.ran = @ + 1]

\* ~scope_exit_invoker()
invoker_destroy(o) ==
    [o EXCEPT !.alive = FALSE, !.ran = IF o._responsible THEN @ + 1 ELSE @]

Objs == 1 .. Len(scope.objs)

scopeRest == <<nblocks, protect_, state_, value_, callback_, promise_alive, stack, exc,
               ret, fut, invoked, hist, calls, outcome>>

\* auto g = on_scope_exit(func): the returned object is the one constructed
\* when the copy is elided; otherwise a temporary is constructed, moved into
\* the returned object and destroyed.
s_on_scope_exit(elide) ==
    /\ scope.path = "in" /\ nops > 0
    /\ Len(scope.objs) + (IF elide THEN 1 ELSE 2) <= MaxGuards
    /\ LET fresh == 1 + Cardinality({i \in Objs : scope.objs[i].made = "ctor"})
           made  == invoker_construct(fresh)
           mv    == invoker_move(made, Len(scope.objs) + 1)
       IN  scope' = [scope EXCEPT !.objs =
                IF elide THEN Append(@, made)
                ELSE @ \o <<invoker_destroy(mv.src), mv.dst>>]
    /\ nops' = nops - 1
    /\ UNCHANGED scopeRest

\* auto h = std::move(g), g being object i
s_move(i) ==
    /\ scope.path = "in" /\ nops > 0
    /\ Len(scope.objs) < MaxGuards
    /\ i \in Objs /\ scope.objs[i].alive
    /\ LET mv == invoker_move(scope.objs[i], i)
       IN  scope' = [scope EXCEPT !.objs = Append([@ EXCEPT ![i] = mv.src], mv.dst)]
    /\ nops' = nops - 1
    /\ UNCHANGED scopeRest

\* g.release(), g being object i
s_release(i) ==
    /\ scope.path = "in" /\ nops > 0
    /\ i \in Objs /\ scope.objs[i].alive
    /\ scope' = [scope EXCEPT !.objs[i] = invoker_release(@)]
    /\ nops' = nops - 1
    /\ UNCHANGED scopeRest

\* control leaves the scope, by a return or by an exception
s_leave(path) ==
    /\ scope.path = "in"
    /\ scope.objs # <<>>
    /\ scope' = [scope EXCEPT !.path = path]
    /\ UNCHANGED <<scopeRest, nops>>

\* the local objects are destroyed in the reverse order of their construction
s_destructor ==
    /\ scope.path # "in"
    /\ \E i \in Objs :
          /\ scope.objs[i].alive
          /\ \A j \in Objs : j > i => ~scope.objs[j].alive
          /\ scope' = [scope EXCEPT !.objs[i] = invoker_destroy(@)]
    /\ UNCHANGED <<scopeRest, nops>>

NextScope ==
    \/ \E elide \in BOOLEAN : s_on_scope_exit(elide)
    \/ \E i \in 1 .. MaxGuards : s_move(i)
    \/ \E i \in 1 .. MaxGuards : s_release(i)
    \/ \E path \in {"return", "throw"} : s_leave(path)
    \/ s_destructor

SpecScope == Init /\ [][NextScope]_vars

\* ------------------------------------------ continuations that re-enter
\* completion::on_complete(func) with a func that ends by calling op on the
\* block it is invoked for.
on_complete_reentrant(t, b, op) ==
    /\ CanStart(t)
    /\ Published(b)
    /\ Begin(t, <<Frame("on_complete", b, "lock", EmptyValue, ReenterCb(op))>>)
    /\ UNCHANGED <<nblocks, blockVars, promise_alive, fut, invoked, hist, calls, outcome, scope>>

\* the frames of the call of op on block b made by thread t
CallFrames(t, b, op) ==
    CASE op = "complete"    -> <<Frame("complete", b, "lock", success(1), NoCb)>>
      [] op = "on_complete" -> <<Frame("on_complete", b, "lock", EmptyValue, UserCb("k_ok"))>>
      [] op = "get"         -> <<Frame("get", b, "wait", EmptyValue, NoCb),
                                 Frame("on_complete", b, "lock", EmptyValue, GetCb(t))>>
      [] op = "disable"     -> <<Frame("disable", b, "lock", EmptyValue, NoCb)>>
      [] op = "map"         -> <<Frame("wrap_call", b, "lock", EmptyValue,
                                       WrapCb(-1, "dbl", "map"))>>
      [] OTHER              -> <<Frame("wrap_call", b, "lock", EmptyValue,
                                       WrapCb(-1, "five", "recover"))>>

\* A continuation that re-enters runs: its last statement is the call.
run_reentrant_callback(t) ==
    /\ Running(t, "callback", "run")
    /\ Top(t).cb.kind = "reenter"
    /\ invoked' = [invoked EXCEPT ![Top(t).blk] = Append(@, Top(t).arg)]
    /\ stack' = [stack EXCEPT ![t] = Pop(t) \o CallFrames(t, Top(t).blk, Top(t).cb.func)]
    /\ UNCHANGED <<nblocks, blockVars, promise_alive, exc, ret, fut, hist, nops, calls, outcome, scope>>

NextReenter ==
    \/ \E v \in Vals : set_value(Producer, v)
    \/ \E k \in UserFuncs : on_complete(Consumer, 0, k)
    \/ \E op \in ReenterOps : on_complete_reentrant(Consumer, 0, op)
    \/ \E t \in Threads : lock(t)
    \/ \E t \in Threads : unlock(t)
    \/ \E t \in Threads : complete_body(t)
    \/ \E t \in Threads : on_complete_body(t)
    \/ \E t \in Threads : completer(t)
    \/ \E t \in Threads : run_user_callback(t)
    \/ \E t \in Threads : run_reentrant_callback(t)

SpecReenter == Init /\ [][NextReenter]_vars

\* ------------------------------------------------------ a blocked get
\* The use made of a completion in TEST(completion_void_blocked) and
\* TEST(completion_inline): the consumer thread calls get on the completion of
\* the promise, the producer thread delivers to the promise, in either order.
NextBlocked ==
    \/ \E v \in Vals : set_value(Producer, v)
    \/ \E e \in Errors : set_exception(Producer, e)
    \/ get(Consumer, 0)
    \/ \E t \in Threads : lock(t)
    \/ \E t \in Threads : unlock(t)
    \/ \E t \in Threads : complete_body(t)
    \/ \E t \in Threads : on_complete_body(t)
    \/ \E t \in Threads : completer(t)
    \/ \E t \in Threads : run_get_callback(t)
    \/ \E t \in Threads : get_throw(t)
    \/ \E t \in Threads : get_return(t)

\* a call that was started goes on: its thread is scheduled again
Proceed(t) ==
    \/ lock(t)
    \/ unlock(t)
    \/ complete_body(t)
    \/ on_complete_body(t)
    \/ completer(t)
    \/ run_get_callback(t)
    \/ get_throw(t)
    \/ get_return(t)

SpecBlocked ==
    /\ Init
    /\ [][NextBlocked]_vars
    /\ \A t \in Threads : WF_vars(Proceed(t))

\* ------------------------------------------------- an exceptional alone
\* The use made of exceptional in the exceptional_* tests: an instance is
\* built by success, failure or try_to, then map, flatmap, recover and get
\* are applied to it one after the other.
Applied(op, f) == [op |-> op, func |-> f]

Building == outcome.made = "default" /\ outcome.raised = "none"

CanApply ==
    /\ outcome.made # "default"
    /\ outcome.raised # "terminate"
    /\ Len(outcome.ops) < MaxSteps

\* the instance after a member function ran: its result, unless it raised
After(run, op, f) ==
    [outcome EXCEPT !.x = IF run.raised = "none" THEN run.out ELSE @,
                    !.raised = run.raised,
                    !.calls = @ \o run.calls,
                    !.ops = Append(@, Applied(op, f))]

\* exceptional<T>::success(v)
o_success(v) ==
    /\ Building
    /\ outcome' = [outcome EXCEPT !.x = success(v), !.src = success(v),
                                  !.made = "success"]
    /\ UNCHANGED <<nblocks, blockVars, promise_alive, stack, exc, ret, fut,
                   invoked, hist, nops, calls, scope>>

\* exceptional<T>::failure(e)
o_failure(e) ==
    /\ Building
    /\ LET run == exceptional_failure(e)
       IN  outcome' = IF run.raised = "none"
                      THEN [outcome EXCEPT !.x = run.out, !.src = run.out,
                                           !.made = "failure", !.tried = e]
                      ELSE [outcome EXCEPT !.raised = run.raised, !.tried = e]
    /\ UNCHANGED <<nblocks, blockVars, promise_alive, stack, exc, ret, fut,
                   invoked, hist, nops, calls, scope>>

\* try_to(action, v)
o_try_to(f, v) ==
    /\ Building
    /\ LET run == try_to_exec(f, v)
       IN  outcome' = [outcome EXCEPT !.x = run.out, !.src = run.out,
                                      !.made = "try_to", !.raised = run.raised,
                                      !.calls = run.calls]
    /\ UNCHANGED <<nblocks, blockVars, promise_alive, stack, exc, ret, fut,
                   invoked, hist, nops, calls, scope>>

\* x.map(f)
o_map(f) ==
    /\ CanApply
    /\ outcome' = After(map_run(outcome.x, f), "map", f)
    /\ UNCHANGED <<nblocks, blockVars, promise_alive, stack, exc, ret, fut,
                   invoked, hist, nops, calls, scope>>

\* x.flatmap(g)
o_flatmap(g) ==
    /\ CanApply
    /\ outcome' = After(flatmap_run(outcome.x, g), "flatmap", g)
    /\ UNCHANGED <<nblocks, blockVars, promise_alive, stack, exc, ret, fut,
                   invoked, hist, nops, calls, scope>>

\* x.recover(f)
o_recover(f) ==
    /\ CanApply
    /\ outcome' = After(recover_run(outcome.x, f), "recover", f)
    /\ UNCHANGED <<nblocks, blockVars, promise_alive, stack, exc, ret, fut,
                   invoked, hist, nops, calls, scope>>

\* x.get()
o_get ==
    /\ CanApply
    /\ outcome' = After(get_run(outcome.x), "get", "-")
    /\ UNCHANGED <<nblocks, blockVars, promise_alive, stack, exc, ret, fut,
                   invoked, hist, nops, calls, scope>>

NextOutcome ==
    \/ \E v \in Vals : o_success(v)
    \/ \E e \in Errors \cup {"null"} : o_failure(e)
    \/ \E f \in MapFuncs : \E v \in Vals : o_try_to(f, v)
    \/ \E f \in MapFuncs : o_map(f)
    \/ \E g \in FlatFuncs : o_flatmap(g)
    \/ \E f \in RecoverFuncs : o_recover(f)
    \/ o_get

SpecOutcome == Init /\ [][NextOutcome]_vars

\* ----------------------------------- conversion between exceptional types
\* exceptional<int> is converted to exceptional<short>: T(U&&) keeps the low
\* 16 bits of the value, read as a signed number.
Convert(v) ==
    LET bits == 16
        m    == v % (2 ^ bits)
    IN  IF m >= 2 ^ (bits - 1) THEN m - 2 ^ bits ELSE m

\* a casting constructor that takes only the value
exceptional_convert_valonly(x) ==
    [dst |-> [ex |-> "null", val |-> Convert(x.val)], src |-> x]

\* exceptional(exceptional<U> src) called with the lvalue x: src is a copy of
\* x, ex_ is moved out of the copy and val_ is constructed from the copy's
\* val_; dst is the instance constructed, src is x afterwards.
exceptional_convert(x) ==
    [dst |-> [ex |-> x.ex, val |-> Convert(x.val)], src |-> x]

\* exceptional<short> y = x; the model goes on with y
o_convert ==
    /\ CanApply
    /\ LET conv == exceptional_convert(outcome.x)
       IN  outcome' = [After(Ran(conv.dst, "none", <<>>), "convert", "-")
                         EXCEPT !.from = conv.src]
    /\ UNCHANGED <<nblocks, blockVars, promise_alive, stack, exc, ret, fut,
                   invoked, hist, nops, calls, scope>>

\* the values tried include one outside the range of the narrower type
NextConvert ==
    \/ \E v \in {1, 40000} : o_success(v)
    \/ \E e \in Errors : o_failure(e)
    \/ \E f \in MapFuncs : \E v \in {1, 40000} : o_try_to(f, v)
    \/ \E f \in MapFuncs : o_map(f)
    \/ o_convert

SpecConvert == Init /\ [][NextConvert]_vars

\* ------------------------------------------- a chain, every call going on
\* a call of the chain that was started goes on: its thread is scheduled again
SpecChainFair ==
    /\ SpecChain
    /\ \A t \in Threads :
          WF_vars(Proceed(t) \/ wrap_call_body(t) \/ wrap_call_after(t)
                             \/ run_wrap_callback(t))

\* --------------------------------------------------------- get, both kinds
\* completion::get with the deliveries of a producer, as in
\* TEST(completion_void_blocked), next to exceptional::get on an instance of
\* its own, as in TEST(exceptional_failure_throws_lvalue).
NextGet ==
    \/ NextBlocked
    \/ \E v \in Vals : o_success(v)
    \/ \E e \in Errors : o_failure(e)
    \/ \E f \in MapFuncs : \E v \in Vals : o_try_to(f, v)
    \/ o_get

SpecGet == Init /\ [][NextGet]_vars

TypeOK ==
    /\ nblocks \in 1 .. MaxBlocks
    /\ \A b \in Blocks : state_[b] \in completion_state
    /\ nops \in Nat
    /\ outcome.made \in {"default", "success", "failure", "try_to"}
    /\ outcome.raised \in {"none", "invalid_argument", "terminate"} \cup Errors \cup {"f_err", "g_err"}
    /\ Len(outcome.ops) <= MaxSteps

\* ------------------------------------------------------------ properties
\* An outcome was delivered to block b: a complete stored it or handed it
\* to the continuation.
Delivered(b) ==
    \E i \in 1 .. Len(hist[b]) :
        hist[b][i].op = "complete" /\ hist[b][i].br \in {"store", "invoke"}

\* No call is in progress on block b.
Quiet(b) ==
    /\ ~protect_[b]
    /\ \A t \in Threads : \A i \in 1 .. Len(stack[t]) : stack[t][i].blk # b

\* Thread t takes the step that runs the body of op.
BodyStep(t, op) == Running(t, op, "body") /\ stack'[t] # stack[t]

\* C1: once a deliver has succeeded on a block, every later deliver on that
\* block throws logic_error and changes nothing, except in Disabled, where it
\* returns normally and is absorbed.
C1_DeliverExactlyOnce ==
    [][\A t \in Threads :
        (BodyStep(t, "complete") /\ Delivered(Top(t).blk)) =>
            /\ stack'[t] = Goto(t, "unlock")[t]
            /\ <<state_, value_, callback_, invoked>>' =
                   <<state_, value_, callback_, invoked>>
            /\ exc'[t] = IF state_[Top(t).blk] = disabled THEN "none"
                         ELSE "logic_error"]_vars

C1_Witness ==
    \E t \in Threads : \E b \in Blocks :
        /\ Idle(t) /\ exc[t] = "logic_error"
        /\ Len(hist[b]) = 2
        /\ hist[b][1].op = "complete" /\ hist[b][1].br = "store"
        /\ hist[b][2].op = "complete" /\ hist[b][2].br = "throw"
        /\ state_[b] = has_value

\* C2: one deliver(o) and one on_complete(k) on a block, in either order of
\* taking the lock, invoke k exactly once with o and leave the block Complete.
C2_OrderIndependence ==
    \A b \in Blocks :
        ( /\ Quiet(b)
          /\ Len(hist[b]) = 2
          /\ {hist[b][1].op, hist[b][2].op} = {"complete", "on_complete"} )
        => /\ state_[b] = complete
           /\ \E i \in 1 .. 2 : /\ hist[b][i].op = "complete"
                                /\ invoked[b] = <<hist[b][i].arg>>

C2_Witness ==
    \E b \in Blocks :
        /\ Quiet(b)
        /\ Len(hist[b]) = 2
        /\ hist[b][1].op = "complete" /\ hist[b][2].op = "on_complete"
        /\ invoked[b] = <<failure("e1")>>
        /\ state_[b] = complete

\* C3: on every block a continuation is invoked at most once, whatever calls
\* are made and however they interleave.
C3_AtMostOnce ==
    \A b \in Blocks : Len(invoked[b]) <= 1

C3_Witness ==
    \E b \in Blocks :
        /\ Len(invoked[b]) = 1
        /\ Len(hist[b]) = 3
        /\ Quiet(b)

\* C4: once a block is Disabled it stays Disabled, no continuation is invoked
\* on it, nothing is stored in it and a deliver on it returns without error;
\* a block disabled after a continuation was registered holds no outcome.
C4_DisabledAbsorbs ==
    [][\A b \in Blocks :
        /\ state_[b] = disabled =>
              /\ state_'[b] = disabled
              /\ invoked'[b] = invoked[b]
              /\ value_'[b] = value_[b]
              /\ callback_'[b] = NoCb
              /\ \A t \in Threads :
                    (BodyStep(t, "complete") /\ Top(t).blk = b) =>
                        exc'[t] = "none" /\ stack'[t] = Goto(t, "unlock")[t]
        /\ ( /\ state_'[b] = disabled
             /\ hist'[b][1].br = "register" ) => value_'[b] = EmptyValue]_vars

C4_Witness ==
    \E b \in Blocks :
        /\ state_[b] = disabled
        /\ Len(hist[b]) = 3
        /\ hist[b][1].op = "on_complete" /\ hist[b][1].br = "register"
        /\ hist[b][2].op = "disable"
        /\ hist[b][3].op = "complete" /\ hist[b][3].br = "nothing"
        /\ invoked[b] = <<>>
        /\ value_[b] = EmptyValue
        /\ \A t \in Threads : Idle(t) /\ exc[t] = "none"

\* C5: on_complete in HasCallback, Complete, Disabled or Broken throws
\* logic_error and neither stores nor invokes the continuation it was given.
C5_OnCompleteRejects ==
    [][\A t \in Threads :
        ( /\ BodyStep(t, "on_complete")
          /\ state_[Top(t).blk] \in {has_callback, complete, disabled, broken} ) =>
            /\ exc'[t] = "logic_error"
            /\ stack'[t] = Goto(t, "unlock")[t]
            /\ <<state_, value_, callback_, invoked>>' =
                   <<state_, value_, callback_, invoked>>]_vars

C5_Witness ==
    \E t \in Threads : \E b \in Blocks :
        /\ Idle(t) /\ exc[t] = "logic_error"
        /\ Len(hist[b]) = 2
        /\ hist[b][1].op = "on_complete" /\ hist[b][1].br = "register"
        /\ hist[b][2].op = "on_complete" /\ hist[b][2].br = "throw"
        /\ state_[b] = has_callback
        /\ invoked[b] = <<>>

\* The edges of the documented state graph.
DocumentedEdges ==
    { <<no_value, has_callback>>, <<no_value, has_value>>, <<no_value, disabled>>,
      <<no_value, broken>>, <<has_callback, complete>>, <<has_value, complete>> }

\* C6: every change of the phase follows an edge of the documented graph.
C6_OnlyDocumentedEdges ==
    [][\A b \in Blocks :
        state_'[b] # state_[b] => <<state_[b], state_'[b]>> \in DocumentedEdges]_vars

\* C7: Complete, Disabled and Broken are terminal.
C7_TerminalPhases ==
    [][\A b \in Blocks :
        state_[b] \in {complete, disabled, broken} => state_'[b] = state_[b]]_vars

\* C8: a producer handle destroyed while the phase is NoValue and nothing was
\* delivered makes the phase Broken, and Broken is reached in no other way.
C8_BrokenOnDestroy ==
    [][\A b \in Blocks :
        /\ ( /\ promise_alive[b] /\ ~promise_alive'[b]
             /\ state_[b] = no_value /\ ~Delivered(b) ) => state_'[b] = broken
        /\ ( state_[b] # broken /\ state_'[b] = broken ) =>
             ( promise_alive[b] /\ ~promise_alive'[b] /\ state_[b] = no_value )]_vars

\* C9: between operations the continuation is populated exactly when the
\* phase is HasCallback.
C9_CallbackIffHasCallback ==
    \A b \in Blocks :
        ~protect_[b] => (callback_[b] # NoCb <=> state_[b] = has_callback)

C9_Witness ==
    \E b \in Blocks :
        /\ Quiet(b)
        /\ Len(hist[b]) = 2
        /\ hist[b][1].br = "register"
        /\ hist[b][2].br = "invoke"
        /\ Len(invoked[b]) = 1
        /\ state_[b] = complete
        /\ callback_[b] = NoCb

\* A block holds an outcome: value_ is not what make_shared left there.
\* (No delivered outcome of the model equals that initial value.)
Populated(b) == value_[b] # EmptyValue

\* C10 as stated: between operations an outcome is held exactly in HasValue
\* and Complete, and never together with a continuation.
C10_OutcomeIffValuePhases ==
    \A b \in Blocks :
        ~protect_[b] =>
            /\ Populated(b) <=> state_[b] \in {has_value, complete}
            /\ ~(Populated(b) /\ callback_[b] # NoCb)

\* C10 amended: between operations, HasValue holds exactly the delivered
\* outcome; NoValue and HasCallback hold none; Complete and Disabled hold
\* only what is left of an outcome stored by a NoValue->HasValue delivery;
\* outcome and continuation are never both populated.
C10_OutcomeHeld ==
    \A b \in Blocks :
        ~protect_[b] =>
            /\ state_[b] = has_value =>
                  \E i \in 1 .. Len(hist[b]) :
                      hist[b][i].br = "store" /\ value_[b] = hist[b][i].arg
            /\ state_[b] \in {no_value, has_callback} => ~Populated(b)
            /\ ( state_[b] \in {complete, disabled, broken} /\ Populated(b) ) =>
                  \E i \in 1 .. Len(hist[b]) :
                      hist[b][i].br = "store" /\ value_[b] \in MovedFrom(hist[b][i].arg)
            /\ ~(Populated(b) /\ callback_[b] # NoCb)

C10_Witness ==
    \E b \in Blocks :
        /\ Quiet(b)
        /\ state_[b] = complete
        /\ ~Populated(b)
        /\ Len(invoked[b]) = 1
        /\ is_success(invoked[b][1])

\* ------------------------------------------------------------ chains
\* The stage chained on block b by map or recover, if any.
StageIdx(b) ==
    {i \in 1 .. Len(hist[b]) :
        hist[b][i].op \in {"map", "recover"} /\ hist[b][i].br \in {"register", "now"}}

HasStage(b) == StageIdx(b) # {}

StageOf(b) == hist[b][CHOOSE i \in StageIdx(b) : TRUE]

\* The exceptional that complete was given for block b.
DeliveredArg(b) ==
    hist[b][CHOOSE i \in 1 .. Len(hist[b]) :
                hist[b][i].op = "complete" /\ hist[b][i].br \in {"store", "invoke"}].arg

\* The calls made by the stage chained on block b.
CallsOf(b) == SelectSeq(calls, LAMBDA c : c.blk = b)

\* The last call of the consumer on block b was a get, which has returned or
\* thrown what the block was given.
GetDone(b) ==
    LET own == SelectSeq(hist[b], LAMBDA ev : ev.op # "complete")
    IN  /\ Idle(Consumer)
        /\ own # <<>>
        /\ own[Len(own)].op = "on_complete"
        /\ own[Len(own)].br \in {"register", "invoke"}

\* Blocks 0 .. b-1 carry map stages whose functions return, and block 0 was
\* given a success.
PureMapChain(b) ==
    /\ Delivered(0)
    /\ is_success(DeliveredArg(0))
    /\ \A c \in 0 .. b - 1 :
          HasStage(c) /\ StageOf(c).op = "map" /\ ~Throws(StageOf(c).func)

RECURSIVE MapChainValue(_)
\* f_b(... f_1(v)) for the stages on blocks 0 .. b-1
MapChainValue(b) ==
    IF b = 0 THEN DeliveredArg(0).val
    ELSE Call(StageOf(b - 1).func, MapChainValue(b - 1))

MapChainCalls(b) ==
    [i \in 1 .. b |-> [func |-> StageOf(i - 1).func, val |-> MapChainValue(i - 1),
                       err |-> "null", blk |-> i - 1]]

Applies(op) ==
    /\ Len(outcome'.ops) = Len(outcome.ops) + 1
    /\ outcome'.ops[Len(outcome'.ops)].op = op

\* the function handed to the member function applied in this step
Handed == outcome'.ops[Len(outcome'.ops)].func

\* the calls made while the instance was built
BuildCalls == IF outcome.made = "try_to" THEN 1 ELSE 0

\* C14: an instance built as a failure, to which only map was applied, any
\* number of times, is still a failure with the error it was built with; no
\* function handed to map was called and no map raised.
C14_MapSkipsFailure ==
    (/\ outcome.made # "default"
     /\ is_failure(outcome.src)
     /\ \A i \in 1 .. Len(outcome.ops) : outcome.ops[i].op = "map") =>
        /\ is_failure(outcome.x)
        /\ outcome.x.ex = outcome.src.ex
        /\ Len(outcome.calls) = BuildCalls
        /\ outcome.raised = "none"

C14_Witness ==
    /\ outcome.made = "failure"
    /\ outcome.src = failure("e1")
    /\ Len(outcome.ops) >= 2
    /\ \A i \in 1 .. Len(outcome.ops) : outcome.ops[i].op = "map"
    /\ outcome.x = failure("e1")
    /\ outcome.calls = <<>>

\* C15: map never raises; on a success it calls f once with the value, and
\* gives a failure with the error f raised if f raises, a success with what f
\* returned if f returns; on a failure it gives a failure.
C15_MapTotal ==
    [][Applies("map") =>
          /\ outcome'.raised = "none"
          /\ IF is_failure(outcome.x)
             THEN is_failure(outcome'.x)
             ELSE /\ outcome'.calls = Append(outcome.calls,
                                             FnCall(Handed, outcome.x.val, "null"))
                  /\ outcome'.x = IF Throws(Handed) THEN failure("f_err")
                                  ELSE success(Call(Handed, outcome.x.val))]_vars

C15_Witness ==
    /\ outcome.src = success(1)
    /\ outcome.ops = <<Applied("map", "dbl"), Applied("map", "boom")>>
    /\ outcome.x = failure("f_err")
    /\ outcome.raised = "none"

\* C17: flatmap on a failure gives a failure with the same error, calls
\* nothing and raises nothing.
C17_FlatmapSkipsFailure ==
    [][(Applies("flatmap") /\ is_failure(outcome.x)) =>
          /\ outcome'.raised = "none"
          /\ is_failure(outcome'.x)
          /\ outcome'.x.ex = outcome.x.ex
          /\ outcome'.calls = outcome.calls]_vars

\* C18: flatmap on a success, with a function that returns, gives exactly the
\* exceptional the function returned for the value, success or failure, and
\* calls the function once.
C18_FlatmapUnwraps ==
    [][(Applies("flatmap") /\ is_success(outcome.x) /\ ~Throws(Handed)) =>
          /\ outcome'.raised = "none"
          /\ outcome'.x = FlatCall(Handed, outcome.x.val)
          /\ outcome'.calls = Append(outcome.calls,
                                     FnCall(Handed, outcome.x.val, "null"))]_vars

\* two doubling flatmaps from success(1) give success(4)
C18_Witness ==
    /\ outcome.src = success(1)
    /\ outcome.ops = <<Applied("flatmap", "dbl_ok"), Applied("flatmap", "dbl_ok")>>
    /\ outcome.x = success(4)
    /\ outcome.raised = "none"

\* C20: failure(nullptr) throws invalid_argument and builds nothing, and that
\* is the only place invalid_argument comes from; an instance built by failure
\* holds the error it was given; no instance has the shape of a failure
\* without an error.
C20_FailureCarriesError ==
    /\ outcome.tried = "null" =>
          /\ outcome.raised = "invalid_argument"
          /\ outcome.made = "default"
          /\ outcome.x = EmptyValue
    /\ outcome.raised = "invalid_argument" =>
          outcome.tried = "null" /\ outcome.ops = <<>>
    /\ outcome.made = "failure" =>
          /\ outcome.tried \in Errors
          /\ outcome.src = failure(outcome.tried)
          /\ is_failure(outcome.src)
    /\ outcome.x.val = failure("e1").val => outcome.x.ex # "null"

C20_Witness ==
    /\ outcome.tried = "null"
    /\ outcome.raised = "invalid_argument"
    /\ outcome.made = "default"

\* ------------------------------------------------------ a blocked get
\* Thread t is inside get, its on_complete has returned and it waits on the
\* future of its std::promise.
Waiting(t) == Running(t, "get", "wait") /\ exc[t] = "none" /\ ~fut[t].set

\* Thread t is inside complete(a) on block 0.
Delivering(t, a) ==
    stack[t] # <<>> /\ stack[t][1].op = "complete" /\ stack[t][1].arg = a

\* The last call of thread t gave the caller what the exceptional a holds.
Gave(t, a) ==
    /\ Idle(t)
    /\ IF is_failure(a) THEN exc[t] = a.ex
       ELSE exc[t] = "none" /\ ret[t] = a.val

Outcomes == {success(v) : v \in Vals} \cup {failure(e) : e \in Errors}

\* C21: no get returns a value before block 0 was given one, and a get that
\* registered its continuation on the block in no_value and waits is released
\* once the producer thread is delivering: it returns the value delivered.
C21_BlockedGetReleased ==
    /\ [][\A t \in Threads :
            (Running(t, "get", "wait") /\ exc[t] = "none" /\ Idle(t)') =>
                (Delivered(0) /\ Gave(t, DeliveredArg(0))')]_vars
    /\ \A a \in Outcomes :
          (/\ Waiting(Consumer)
           /\ state_[0] = has_callback /\ callback_[0] = GetCb(Consumer)
           /\ Delivering(Producer, a)) ~> Gave(Consumer, a)

\* get registered first, set_value(1) came second, get returned 1
C21_Witness ==
    /\ hist[0] = <<Event("on_complete", EmptyValue, "register"),
                   Event("complete", success(1), "invoke")>>
    /\ invoked[0] = <<success(1)>>
    /\ Idle(Consumer)
    /\ ret[Consumer] = 1
    /\ exc[Consumer] = "none"

\* C22: complete on a block in no_value stores the exceptional, sets has_value
\* and invokes nothing; a get on a block in has_value runs its lambda inline
\* on its own thread with the stored exceptional, so that when its on_complete
\* returns the future is already set and the block is complete; get then
\* gives its caller what was delivered.
C22_StoreThenGetInline ==
    [][\A t \in Threads :
          /\ (BodyStep(t, "complete") /\ state_[Top(t).blk] = no_value) =>
                /\ value_'[Top(t).blk] = Top(t).arg
                /\ state_'[Top(t).blk] = has_value
                /\ invoked' = invoked
                /\ callback_' = callback_
                /\ Len(stack'[t]) = Len(stack[t])
          /\ (/\ BodyStep(t, "on_complete")
              /\ Top(t).cb = GetCb(t)
              /\ state_[Top(t).blk] = has_value) =>
                /\ Len(stack'[t]) = Len(stack[t]) + 1
                /\ stack'[t][Len(stack'[t])] =
                      Frame("callback", Top(t).blk, "run",
                            DeliveredArg(Top(t).blk), GetCb(t))
          /\ (/\ Running(t, "on_complete", "unlock")
              /\ Top(t).cb = GetCb(t)
              /\ fut[t].set) =>
                /\ state_[Top(t).blk] = complete
                /\ fut[t].v = DeliveredArg(Top(t).blk)
          /\ (Running(t, "get", "wait") /\ exc[t] = "none" /\ Idle(t)') =>
                IF is_failure(fut[t].v) THEN exc'[t] = fut[t].v.ex
                ELSE exc'[t] = "none" /\ ret'[t] = fut[t].v.val]_vars

\* set_value(1) with nothing registered, then get() = 1 and the block is complete
C22_Witness ==
    /\ hist[0] = <<Event("complete", success(1), "store"),
                   Event("on_complete", EmptyValue, "invoke")>>
    /\ invoked[0] = <<success(1)>>
    /\ state_[0] = complete
    /\ Idle(Consumer)
    /\ ret[Consumer] = 1

\* C23: a get on the completion whose block was given a failure throws the
\* error of that failure and returns nothing, whichever of get and the
\* delivery came first; exceptional::get on a failure throws its error and
\* leaves the instance as it was, so that every further get throws it again.
C23_GetRethrows ==
    /\ [][\A t \in Threads :
            (/\ Running(t, "get", "wait") /\ exc[t] = "none" /\ Idle(t)'
             /\ Delivered(0) /\ is_failure(DeliveredArg(0))) =>
                /\ exc'[t] = DeliveredArg(0).ex
                /\ ret'[t] = 0]_vars
    /\ [][(Applies("get") /\ is_failure(outcome.x)) =>
            /\ outcome'.raised = outcome.x.ex
            /\ outcome'.x = outcome.x]_vars

\* get called first, set_exception(e1) second, get threw e1; and an
\* exceptional holding a failure threw on each of two calls of get
C23_Witness ==
    /\ hist[0] = <<Event("on_complete", EmptyValue, "register"),
                   Event("complete", failure("e1"), "invoke")>>
    /\ Idle(Consumer)
    /\ exc[Consumer] = "e1"
    /\ outcome.made = "try_to"
    /\ is_failure(outcome.src)
    /\ outcome.ops = <<Applied("get", "-"), Applied("get", "-")>>
    /\ outcome.raised = outcome.src.ex

\* C24: when complete or on_complete leaves with the exception of the
\* continuation it invoked inline, the block is complete, complete has reset
\* callback_, and the exception goes on to the caller.
C24_BookkeepingOnRaise ==
    [][\A t \in Threads :
          (/\ stack[t] # <<>>
           /\ Top(t).pc = "unlock"
           /\ Top(t).op \in {"complete", "on_complete"}
           /\ exc[t] = "k_err"
           /\ stack'[t] # stack[t]) =>
              /\ state_[Top(t).blk] = complete
              /\ Top(t).op = "complete" => callback_[Top(t).blk] = NoCb
              /\ state_' = state_ /\ callback_' = callback_
              /\ exc'[t] = "k_err"
              /\ stack'[t] = Pop(t)]_vars

\* on_complete(k) with a k that throws, then set_value(1): complete threw
\* the exception of k and left the block complete without a continuation
C24_Witness ==
    /\ hist[0] = <<Event("on_complete", EmptyValue, "register"),
                   Event("complete", success(1), "invoke")>>
    /\ invoked[0] = <<success(1)>>
    /\ \E t \in Threads : Idle(t) /\ exc[t] = "k_err"
    /\ state_[0] = complete
    /\ callback_[0] = NoCb
    /\ ~protect_[0]

\* ------------------------------------------------------------ the lock
\* Thread t is between the unique_lock and its release in a call on block b.
InCritical(t, b) ==
    \E i \in 1 .. Len(stack[t]) :
        /\ stack[t][i].blk = b
        /\ stack[t][i].op \in {"complete", "on_complete", "disable", "wrap_call"}
        /\ stack[t][i].pc \in {"body", "completer", "after", "unlock"}

\* Thread t is invoking a continuation of block b.
Invoking(t, b) ==
    \E i \in 1 .. Len(stack[t]) :
        stack[t][i].blk = b /\ stack[t][i].op = "callback"

\* C25: for every block at most one thread is between the unique_lock and
\* its release, and the mutex is locked exactly then; a thread invoking a
\* continuation of the block is that thread; and the state, value, callback
\* and history of a block change only in steps of the thread that holds its
\* mutex.
C25_Serialized ==
    /\ [](\A b \in Blocks :
            /\ Cardinality({t \in Threads : InCritical(t, b)}) <= 1
            /\ protect_[b] <=> \E t \in Threads : InCritical(t, b)
            /\ \A t \in Threads : Invoking(t, b) => InCritical(t, b))
    /\ [][\A b \in Blocks :
            (\/ state_'[b] # state_[b]
             \/ value_'[b] # value_[b]
             \/ callback_'[b] # callback_[b]
             \/ hist'[b] # hist[b]
             \/ invoked'[b] # invoked[b]) =>
                \E t \in Threads : InCritical(t, b) /\ stack'[t] # stack[t]]_vars

\* a thread is invoking a continuation of block 0 while the other thread,
\* inside a call on block 0, is still in spin_mutex::lock
C25_Witness ==
    \E t, u \in Threads :
        /\ t # u
        /\ Running(t, "callback", "run") /\ Top(t).blk = 0
        /\ stack[u] # <<>> /\ Top(u).blk = 0 /\ Top(u).pc = "lock"
        /\ protect_[0]

\* Thread t, inside a continuation invoked for block b, has called into
\* block b again and is in spin_mutex::lock.
Reentered(t) ==
    /\ stack[t] # <<>>
    /\ Top(t).pc = "lock"
    /\ \E i \in 1 .. Len(stack[t]) - 1 :
          /\ stack[t][i].blk = Top(t).blk
          /\ stack[t][i].pc \in {"body", "completer", "after", "unlock"}

\* C26: a thread that, from a continuation invoked inline, called complete,
\* on_complete, get, disable, map or recover on the same block stays in
\* spin_mutex::lock: none of its frames ever moves, the outer call does not
\* return, the mutex stays locked and the block stays as it is.
C26_ReentrantDeadlock ==
    [][\A t \in Threads :
          Reentered(t) =>
              /\ stack'[t] = stack[t]
              /\ protect_'[Top(t).blk]
              /\ state_'[Top(t).blk] = state_[Top(t).blk]
              /\ callback_'[Top(t).blk] = callback_[Top(t).blk]]_vars

\* the producer, delivering to a continuation that calls disable on the
\* block, is in lock while the other thread has also come to the lock
C26_Witness ==
    /\ Reentered(Producer)
    /\ Top(Producer).op = "disable"
    /\ stack[Producer][1].op = "complete" /\ stack[Producer][1].pc = "completer"
    /\ stack[Consumer] # <<>> /\ Top(Consumer).pc = "lock"
    /\ protect_[0]

C28_DisableNeverInterrupts ==
    /\ [][\A t \in Threads :
            BodyStep(t, "disable") =>
                \A u \in Threads : ~Invoking(u, Top(t).blk)]_vars
    /\ [][\A b \in Blocks :
            invoked'[b] # invoked[b] =>
                \A i \in 1 .. Len(hist[b]) : hist[b][i].op # "disable"]_vars
    /\ [](\A b \in Blocks : \A i, j \in 1 .. Len(hist[b]) :
            (/\ hist[b][i].op = "disable"
             /\ hist[b][j].op = "complete"
             /\ hist[b][j].br = "invoke") => j < i)

\* a delivery is invoking the continuation registered on block 0 while a
\* disable of block 0 on the other thread is in lock
C28_Witness ==
    \E t, u \in Threads :
        /\ t # u
        /\ hist[0] = <<Event("on_complete", EmptyValue, "register"),
                       Event("complete", success(1), "invoke")>>
        /\ Running(t, "callback", "run") /\ Top(t).blk = 0
        /\ Running(u, "disable", "lock") /\ Top(u).blk = 0

TryLockStep(t) ==
    /\ Len(hist'[0]) = Len(hist[0]) + 1
    /\ hist'[0][Len(hist'[0])].op = "try_lock"
    /\ hist'[0][Len(hist'[0])].func = t

\* C30: try_lock returns true exactly when the mutex was unlocked, and then
\* the caller holds it; it leaves the mutex locked either way; while a thread
\* holds the mutex every try_lock returns false; at most one thread holds
\* the mutex, and the mutex is locked exactly while one does.
C30_MutualExclusion ==
    /\ [][\A t \in Threads :
            TryLockStep(t) =>
                /\ ret'[t] = 1 <=> ~protect_[0]
                /\ ret'[t] = 1 <=> Holder(t)'
                /\ ret'[t] \in {0, 1}
                /\ protect_'[0]
                /\ (\E u \in Threads : Holder(u)) => ret'[t] = 0]_vars
    /\ [](/\ Cardinality({t \in Threads : Holder(t)}) <= 1
          /\ protect_[0] <=> \E t \in Threads : Holder(t))

\* one thread got the mutex by try_lock, the try_lock of the other failed
C30_Witness ==
    /\ hist[0] = <<SpinEvent("try_lock", "t1", "true"),
                   SpinEvent("try_lock", "t2", "false")>>
    /\ Holder("t1")
    /\ Idle("t2") /\ ret["t2"] = 0
    /\ protect_[0]

\* --------------------------------------------- spin_mutex::try_lock_until
\* C31: try_lock_until with a deadline already in the past still attempts the
\* lock: it returns false only after at least one failed try_lock of its own,
\* and its try_lock on a free mutex makes it return true holding the mutex.
C31_PastDeadlineAttempts ==
    /\ [](\A t \in Threads :
            (/\ CallStart(t) > 0
             /\ hist[0][CallStart(t)].br = "past"
             /\ \E i \in CallStart(t) + 1 .. Len(hist[0]) :
                   hist[0][i].op = "return" /\ hist[0][i].func = t)
                => Attempts(t) >= 1)
    /\ [][\A t \in Threads :
            (/\ Running(t, "try_lock_until", "try")
             /\ Top(t).arg = "past"
             /\ TryLockStep(t)
             /\ ~protect_[0])
                => ret'[t] = 1 /\ Holder(t)']_vars

\* ------------------------------------------------- scope_exit_invoker
\* how often the function f was run by the destructors
Runs(f) ==
    LET ran == {i \in Objs : scope.objs[i].ran > 0 /\ scope.objs[i]._func = f}
    IN  IF \E i \in ran : scope.objs[i].ran > 1 THEN 2 ELSE Cardinality(ran)

\* Object i was constructed with a function and was never moved from.
Guard(i) == scope.objs[i].made = "ctor" /\ ~scope.objs[i].moved

\* C32: a scope_exit_invoker constructed with a function (and not moved from)
\* has not run it while it is alive; once it is destroyed, whether the scope
\* was left by a return or by an exception, it has run it exactly once, unless
\* release() was called on it, and then the function has not run at all.
C32_RunsOnceAtExit ==
    \A i \in Objs :
        Guard(i) =>
            LET o == scope.objs[i]
            IN  /\ o.alive => o.ran = 0 /\ Runs(o._func) = 0
                /\ ~o.alive =>
                      /\ scope.path \in {"return", "throw"}
                      /\ o.ran = IF o.released THEN 0 ELSE 1
                      /\ Runs(o._func) = o.ran

\* a scope left by an exception: one guard ran its function, a released one
\* did not
C32_Witness ==
    /\ scope.path = "throw"
    /\ \E i, j \in Objs :
          /\ Guard(i) /\ Guard(j)
          /\ ~scope.objs[i].alive /\ ~scope.objs[j].alive
          /\ ~scope.objs[i].released /\ scope.objs[i].ran = 1
          /\ scope.objs[j].released /\ scope.objs[j].ran = 0

\* Object j was constructed by a move and was itself never moved from nor
\* released.
Destination(j) ==
    /\ scope.objs[j].made = "move"
    /\ ~scope.objs[j].moved
    /\ ~scope.objs[j].released

\* C33 as stated: the source of a move never runs the function, and the
\* destination of a move runs it when it is destroyed, whatever the source
\* was (as long as the source had not itself been moved from before).
C33_MoveArmsDestination ==
    \A j \in Objs :
        /\ scope.objs[j].made = "move" => scope.objs[scope.objs[j].from].ran = 0
        /\ (Destination(j) /\ ~scope.objs[j].alive /\ scope.objs[j].origin # "moved_from")
              => scope.objs[j].ran = 1 /\ Runs(scope.objs[j]._func) = 1

\* C33: a move hands the source's responsibility to the destination. The
\* source never runs the function; the destination runs it at its destruction
\* exactly when the source was still armed, and not at all when release() had
\* been called on the source; no function is ever run twice.
C33_MoveTransfers ==
    /\ \A j \in Objs :
          /\ scope.objs[j].made = "move" => scope.objs[scope.objs[j].from].ran = 0
          /\ scope.objs[j].moved => scope.objs[j].ran = 0 /\ ~scope.objs[j]._responsible
          /\ (Destination(j) /\ scope.objs[j].alive) =>
                /\ scope.objs[j].ran = 0
                /\ scope.objs[j]._responsible <=> scope.objs[j].origin = "armed"
          /\ (Destination(j) /\ ~scope.objs[j].alive) =>
                scope.objs[j].ran = IF scope.objs[j].origin = "armed" THEN 1 ELSE 0
    /\ \A f \in 1 .. MaxGuards : Runs(f) <= 1

\* an armed guard was moved; both objects are destroyed, only the destination
\* ran the function
C33_Witness ==
    \E j \in Objs :
        /\ Destination(j) /\ scope.objs[j].origin = "armed"
        /\ scope.objs[scope.objs[j].from].made = "ctor"
        /\ \A i \in Objs : ~scope.objs[i].alive
        /\ scope.objs[j].ran = 1
        /\ scope.objs[scope.objs[j].from].ran = 0
        /\ Runs(scope.objs[j]._func) = 1

\* ----------------------------------- conversion between exceptional types
\* C34: converting an exceptional gives a success with the converted value
\* for a success and a failure with the same exception for a failure; it
\* raises nothing, calls nothing and leaves the instance converted as it was.
C34_ConversionPreserves ==
    [][Applies("convert") =>
          /\ is_success(outcome.x) => outcome'.x = success(Convert(outcome.x.val))
          /\ is_failure(outcome.x) =>
                is_failure(outcome'.x) /\ outcome'.x.ex = outcome.x.ex
          /\ is_success(outcome'.x) <=> is_success(outcome.x)
          /\ outcome'.from = outcome.x
          /\ outcome'.raised = outcome.raised
          /\ outcome'.calls = outcome.calls]_vars

\* a success whose value does not fit and a failure were both converted
C34_Witness ==
    /\ Len(outcome.ops) = 3
    /\ outcome.src = success(40000)
    /\ outcome.ops = <<Applied("convert", "-"), Applied("map", "boom"),
                       Applied("convert", "-")>>
    /\ outcome.from = failure("f_err")
    /\ outcome.x.ex = "f_err"

\* ------------------------------------------------- rejected continuations
NoContinue == {has_callback, complete, disabled, broken}

\* C35: map and recover on a block in HasCallback, Complete, Disabled or
\* Broken throw logic_error: the body allocates no new block, constructs no
\* promise, stores, delivers and calls nothing, and the error leaves the call
\* with the thread (it is in no exceptional).
C35_ContinueRejected ==
    /\ \A s \in NoContinue : wrap_call_dispatch(s) = "throw"
    /\ [][\A t \in Threads :
            (/\ Running(t, "wrap_call", "body")
             /\ stack'[t] # stack[t]
             /\ state_[Top(t).blk] \in NoContinue)
                => /\ exc'[t] = "logic_error"
                   /\ Top(t)'.pc = "unlock"
                   /\ Len(stack'[t]) = Len(stack[t])
                   /\ UNCHANGED <<nblocks, promise_alive, state_, value_, callback_,
                                 invoked, calls>>]_vars
    /\ [][\A t \in Threads :
            (/\ Running(t, "wrap_call", "unlock")
             /\ exc[t] = "logic_error"
             /\ stack'[t] # stack[t])
                => /\ exc'[t] = "logic_error"
                   /\ Idle(t)'
                   /\ UNCHANGED <<nblocks, promise_alive, state_, value_, callback_,
                                 invoked, calls>>]_vars

\* a map on a block that already has a continuation came back with logic_error
C35_Witness ==
    \E t \in Threads : \E b \in Blocks :
        /\ Idle(t) /\ exc[t] = "logic_error"
        /\ state_[b] = has_callback
        /\ Len(hist[b]) >= 2
        /\ hist[b][Len(hist[b])].op = "map"
        /\ hist[b][Len(hist[b])].br = "throw"
        /\ nblocks = 1

\* ------------------------------------------------ who runs a continuation
\* the frame of the call that invoked the continuation thread t is running
Caller(t) == stack[t][Len(stack[t]) - 1]

\* C36: a complete that finds a continuation registered calls it on its own
\* thread; an on_complete that finds a value calls the continuation it was
\* given on its own thread; a continuation is only ever invoked on the thread
\* of the call that came second, while that call is still in progress and
\* holds the lock, and never by two threads.
C36_RunsOnSecondThread ==
    /\ [][\A t \in Threads :
            (/\ Running(t, "complete", "body")
             /\ stack'[t] # stack[t]
             /\ state_[Top(t).blk] = has_callback)
                => /\ Len(stack'[t]) = Len(stack[t]) + 1
                   /\ Top(t)'.op = "callback"
                   /\ Top(t)'.blk = Top(t).blk
                   /\ Top(t)'.cb = callback_[Top(t).blk]
                   /\ Top(t)'.arg = Top(t).arg
                   /\ \A u \in Threads \ {t} : stack'[u] = stack[u]]_vars
    /\ [][\A t \in Threads :
            (/\ Running(t, "on_complete", "body")
             /\ stack'[t] # stack[t]
             /\ state_[Top(t).blk] = has_value)
                => /\ Len(stack'[t]) = Len(stack[t]) + 1
                   /\ Top(t)'.op = "callback"
                   /\ Top(t)'.blk = Top(t).blk
                   /\ Top(t)'.cb = Top(t).cb
                   /\ Top(t)'.arg = value_[Top(t).blk]
                   /\ \A u \in Threads \ {t} : stack'[u] = stack[u]]_vars
    /\ [][\A b \in Blocks :
            invoked'[b] # invoked[b] =>
                \E t \in Threads :
                    /\ Running(t, "callback", "run")
                    /\ Top(t).blk = b
                    /\ stack'[t] # stack[t]
                    /\ Len(stack[t]) >= 2
                    /\ Caller(t).blk = b
                    /\ Caller(t).op \in {"complete", "on_complete"}
                    /\ Caller(t).pc = "completer"
                    /\ Len(hist[b]) >= 2
                    /\ hist[b][Len(hist[b])].op = Caller(t).op
                    /\ hist[b][Len(hist[b])].br = "invoke"
                    /\ Caller(t).op = "complete" =>
                          \E i \in 1 .. Len(hist[b]) - 1 : hist[b][i].br = "register"
                    /\ Caller(t).op = "on_complete" =>
                          \E i \in 1 .. Len(hist[b]) - 1 :
                              hist[b][i].op = "complete" /\ hist[b][i].br = "store"
                    /\ protect_[b]
                    /\ \A u \in Threads \ {t} : ~Invoking(u, b) /\ ~InCritical(u, b)]_vars
    /\ [](\A b \in Blocks : \A t \in Threads :
            Invoking(t, b) => \A u \in Threads \ {t} : ~Invoking(u, b))

\* the continuation registered first has run on the delivering thread, whose
\* complete has not returned yet
C36_Witness ==
    /\ Len(hist[0]) = 2
    /\ hist[0][1].op = "on_complete" /\ hist[0][1].br = "register"
    /\ hist[0][2].op = "complete" /\ hist[0][2].br = "invoke"
    /\ invoked[0] = <<success(1)>>
    /\ Idle("t1")
    /\ Running("t2", "complete", "completer")
    /\ callback_[0].kind = "user"

\* ------------------------------------------------------- rejected calls
\* C37: a complete, on_complete, map or recover that throws logic_error
\* leaves state_, value_ and callback_ of every block as they were, in the
\* step that finds the state wrong and in the one that leaves the call; and
\* set_exception with a null exception_ptr throws invalid_argument without
\* entering complete.
C37_RejectedChangesNothing ==
    /\ \A s \in {has_value, complete, broken} : complete_dispatch(s) = "throw"
    /\ \A s \in NoContinue : on_complete_dispatch(s) = "throw"
    /\ [][\A t \in Threads :
            (/\ stack[t] # <<>>
             /\ Top(t).pc = "body"
             /\ \/ /\ Top(t).op = "complete"
                   /\ state_[Top(t).blk] \in {has_value, complete, broken}
                \/ /\ Top(t).op \in {"on_complete", "wrap_call"}
                   /\ state_[Top(t).blk] \in NoContinue
             /\ stack'[t] # stack[t])
                => /\ exc'[t] = "logic_error"
                   /\ Top(t)'.pc = "unlock"
                   /\ UNCHANGED <<state_, value_, callback_, invoked, nblocks>>]_vars
    /\ [][\A t \in Threads :
            (/\ stack[t] # <<>>
             /\ Top(t).pc = "unlock"
             /\ exc[t] = "logic_error"
             /\ stack'[t] # stack[t])
                => /\ exc'[t] = "logic_error"
                   /\ UNCHANGED <<state_, value_, callback_, invoked, nblocks>>]_vars
    /\ [][\A t \in Threads :
            (exc'[t] = "invalid_argument" /\ exc[t] # "invalid_argument")
                => /\ Idle(t) /\ Idle(t)'
                   /\ UNCHANGED <<blockVars, invoked, hist, nblocks>>]_vars

\* one thread had a second delivery rejected, the other a null exception
C37_Witness ==
    \E t, u \in Threads :
        /\ Idle(t) /\ exc[t] = "logic_error"
        /\ Idle(u) /\ exc[u] = "invalid_argument"
        /\ Len(hist[0]) = 2
        /\ hist[0][1] = Event("complete", success(1), "store")
        /\ hist[0][2].op = "complete" /\ hist[0][2].br = "throw"
        /\ state_[0] = has_value
        /\ value_[0] = success(1)
        /\ callback_[0] = NoCb

\* ------------------------------------------------ the lock on every exit
\* C38: when complete, on_complete, disable, map or recover is left, by a
\* return or by an exception of any kind, the lock of its block is free
\* afterwards; a lock is only ever held by a thread inside such a call, so
\* with every thread back from its calls every lock is free.
C38_LockReleasedOnExit ==
    /\ [][\A t \in Threads :
            (/\ stack[t] # <<>>
             /\ Top(t).op \in {"complete", "on_complete", "disable", "wrap_call"}
             /\ Top(t).pc = "unlock"
             /\ stack'[t] # stack[t])
                => /\ protect_[Top(t).blk]
                   /\ ~protect_'[Top(t).blk]
                   /\ stack'[t] = Pop(t)
                   /\ exc'[t] = exc[t]]_vars
    /\ [](\A b \in Blocks : protect_[b] => \E t \in Threads : InCritical(t, b))
    /\ []((\A t \in Threads : Idle(t)) => \A b \in Blocks : ~protect_[b])

\* a continuation threw out of on_complete, and the on_complete that came
\* next got the lock and was rejected; every lock is free
C38_Witness ==
    /\ Len(hist[0]) = 3
    /\ hist[0][1].op = "complete" /\ hist[0][1].br = "store"
    /\ hist[0][2].op = "on_complete" /\ hist[0][2].br = "invoke"
    /\ hist[0][3].op = "on_complete" /\ hist[0][3].br = "throw"
    /\ \E t, u \in Threads :
          /\ Idle(t) /\ exc[t] = "k_err"
          /\ Idle(u) /\ exc[u] = "logic_error"
    /\ \A b \in Blocks : ~protect_[b]

\* ------------------------------------------------ a get nobody releases
\* Nothing can deliver to block b any more: its completion_promise is gone
\* and no complete on it is in progress or about to be called.
ProducerGone(b) ==
    /\ ~promise_alive[b]
    /\ \A u \in Threads : \A i \in 1 .. Len(stack[u]) :
          /\ ~(stack[u][i].op = "complete" /\ stack[u][i].blk = b)
          /\ ~(stack[u][i].op = "callback" /\ stack[u][i].cb.promise = b)
    /\ \A c \in Blocks : ~(callback_[c].kind = "wrap" /\ callback_[c].promise = b)

\* C39: a get that is blocked (its continuation was registered in no_value)
\* stops waiting only in the step in which another thread, inside complete on
\* the same block, runs that continuation with the outcome delivered; once the
\* block is disabled, or nothing can deliver to it any more, the get stays
\* blocked in every later state.
C39_BlockedGetStaysBlocked ==
    /\ [][\A t \in Threads :
            (Waiting(t) /\ ~Waiting(t)')
                => /\ fut'[t].set
                   /\ stack'[t] = stack[t]
                   /\ \E u \in Threads \ {t} :
                         /\ Running(u, "callback", "run")
                         /\ Top(u).cb = GetCb(t)
                         /\ Top(u).blk = Top(t).blk
                         /\ Caller(u).op = "complete"
                         /\ Caller(u).blk = Top(t).blk
                         /\ fut'[t].v = Caller(u).arg]_vars
    /\ [][\A t \in Threads :
            (/\ Waiting(t)
             /\ state_[Top(t).blk] = disabled \/ ProducerGone(Top(t).blk))
                => /\ Waiting(t)'
                   /\ state_'[Top(t).blk] = disabled \/ ProducerGone(Top(t).blk)']_vars

\* the get was blocked, the block was disabled, a later delivery was absorbed:
\* no call is left to start, and the get is still blocked
C39_Witness ==
    /\ Waiting(Consumer)
    /\ Idle(Producer)
    /\ nops = 0
    /\ state_[0] = disabled
    /\ Len(hist[0]) = 3
    /\ hist[0][1].op = "on_complete" /\ hist[0][1].br = "register"
    /\ hist[0][2].op = "disable"
    /\ hist[0][3].op = "complete" /\ hist[0][3].br = "nothing"

\* --------------------------------------------- delivery through a chain
\* Thread t is inside a complete on the head of the chain.
InDelivery(t) == stack[t] # <<>> /\ stack[t][1].op = "complete" /\ stack[t][1].blk = 0

\* Blocks 0 .. n-1 each had a stage registered and then the outcome passed
\* through it, block n had the final outcome stored and nothing else.
PassedThrough(n) ==
    /\ n >= 1 /\ n < nblocks
    /\ \A b \in 0 .. n - 1 :
          /\ Len(hist[b]) = 2
          /\ hist[b][1].op \in {"map", "recover"} /\ hist[b][1].br = "register"
          /\ hist[b][2].op = "complete" /\ hist[b][2].br = "invoke"
    /\ Len(hist[n]) = 1
    /\ hist[n][1].op = "complete" /\ hist[n][1].br = "store"

====
